---- MODULE Spec2Model ----
(***************************************************************************)
(* A model of the arger argument library: the validation pass              *)
(* (src/arger-verify.h) and the runtime parser (src/arger-parser.h).       *)
(*                                                                         *)
(* Strings are sequences of one-character strings, so that the parser's    *)
(* splitting of a token (leading hyphens, the first '=', the abbreviation  *)
(* run) is computed the way the code computes it.  An optional value       *)
(* (std::optional, a nullable pointer) is the empty sequence or a sequence *)
(* of one element.  The abbreviation 0 ("none") is the empty string.       *)
(***************************************************************************)
EXTENDS Integers, Sequences, FiniteSets, TLC

VARIABLES config, pArgs, pc, pConfig, pTopMost, pParsed, pDeferred, pIndex,
          pPrintHelp, pPrintVersion, pPositionalLocked, chosen, outcome, trace

vars == <<config, pArgs, pc, pConfig, pTopMost, pParsed, pDeferred, pIndex,
          pPrintHelp, pPrintVersion, pPositionalLocked, chosen, outcome, trace>>

(***************************************************************************)
(* Bounds of the model.                                                    *)
(***************************************************************************)
\* the longest token list handed to Parse (the program path included)
MaxArgs == 4
\* the largest declared minimum/maximum of a requirement
MaxRequire == 2
\* the most positionals declared by one endpoint
MaxPositionals == 2

(***************************************************************************)
(* Generic helpers.                                                        *)
(***************************************************************************)
NoChar == ""
Nothing == <<>>
Some(v) == <<v>>
HasValue(o) == Len(o) > 0
ValueOf(o) == o[1]
ValueOr(o, d) == IF Len(o) > 0 THEN o[1] ELSE d

Max(a, b) == IF a >= b THEN a ELSE b
Min(a, b) == IF a <= b THEN a ELSE b

Range(s) == { s[i] : i \in 1..Len(s) }

RECURSIVE Concat(_)
Concat(ss) == IF Len(ss) = 0 THEN <<>> ELSE Head(ss) \o Concat(Tail(ss))

RECURSIVE SeqsUpTo(_, _)
SeqsUpTo(S, n) ==
    IF n = 0 THEN { <<>> }
    ELSE LET shorter == SeqsUpTo(S, n - 1)
         IN  shorter \cup { Append(s, x) : s \in { t \in shorter : Len(t) = n - 1 }, x \in S }

\* the code point order of the characters the model uses (wchar_t comparison)
CharOrder == <<"-", "0", "1", "=", "T", "a", "b", "c", "d", "e", "f", "g", "h", "i",
               "j", "k", "l", "m", "n", "o", "p", "q", "r", "s", "t", "u", "v",
               "w", "x", "y", "z">>
CharCode(c) == CHOOSE i \in 1..Len(CharOrder) : CharOrder[i] = c

\* std::wstring operator< (lexicographic), the key order of std::map<std::wstring, ...>
RECURSIVE StrLess(_, _)
StrLess(a, b) ==
    IF Len(b) = 0 THEN FALSE
    ELSE IF Len(a) = 0 THEN TRUE
    ELSE IF Head(a) # Head(b) THEN CharCode(Head(a)) < CharCode(Head(b))
    ELSE StrLess(Tail(a), Tail(b))

\* the elements of a sequence whose keys are pairwise different, in key order
RECURSIVE SortByName(_)
SortByName(S) ==
    IF S = {} THEN <<>>
    ELSE LET first == CHOOSE x \in S : \A y \in S \ {x} : StrLess(x.name, y.name)
         IN  <<first>> \o SortByName(S \ {first})

(***************************************************************************)
(* Types and values (src/arger-config.h, src/arger-value.h).               *)
(* A type is a primitive tag or an enum with its entries; a value carries  *)
(* its kind t, its string s (kind "str") and its number n (the boolean as  *)
(* 0/1 for kind "bool", the entry id for kind "enum").                     *)
(***************************************************************************)
Primitive(kind) == [kind |-> kind, entries |-> <<>>]
Enum(entries) == [kind |-> "enum", entries |-> entries]
EnumEntry(name, id) == [name |-> name, id |-> id]

StrValue(s) == [t |-> "str", s |-> s, n |-> 0]
BoolValue(b) == [t |-> "bool", s |-> <<>>, n |-> IF b THEN 1 ELSE 0]
EnumValue(id) == [t |-> "enum", s |-> <<>>, n |-> id]

\* a variant in which unum reads a boolean as 0 or 1
ReadBoolean(accessor, value) ==
    LET covered == CASE accessor = "unum" -> { "unum", "enum", "bool" }
                     [] accessor = "inum" -> { "unum", "inum", "enum" }
                     [] accessor = "real" -> { "real", "unum", "inum" }
                     [] accessor = "boolean" -> { "bool" }
                     [] accessor = "str" -> { "str", "enum" }
    IN  IF value.t \notin covered THEN [thrown |-> TRUE, s |-> <<>>, n |-> 0]
        ELSE IF accessor = "str" THEN [thrown |-> FALSE, s |-> value.s, n |-> 0]
        ELSE [thrown |-> FALSE, s |-> <<>>, n |-> value.n]

\* the accessors unum, inum, real, boolean and str of a value: what they
\* return (a number, or for a boolean 1 and 0, or a string) unless they throw
\* the TypeException
Read(accessor, value) ==
    LET covered == CASE accessor = "unum" -> { "unum", "enum" }
                     [] accessor = "inum" -> { "unum", "inum", "enum" }
                     [] accessor = "real" -> { "real", "unum", "inum" }
                     [] accessor = "boolean" -> { "bool" }
                     [] accessor = "str" -> { "str", "enum" }
    IN  IF value.t \notin covered THEN [thrown |-> TRUE, s |-> <<>>, n |-> 0]
        ELSE IF accessor = "str" THEN [thrown |-> FALSE, s |-> value.s, n |-> 0]
        ELSE [thrown |-> FALSE, s |-> <<>>, n |-> value.n]

\* the first entry of the enum with the given name (std::find_if), if any
FindEnum(entries, name) ==
    IF \E i \in 1..Len(entries) : entries[i].name = name
    THEN Some(entries[CHOOSE i \in 1..Len(entries) :
                  /\ entries[i].name = name
                  /\ \A j \in 1..(i - 1) : entries[j].name # name])
    ELSE Nothing

(***************************************************************************)
(* The specification tree (src/arger-config.h).  The nodes of the tree     *)
(* (the root and the groups) are kept in one sequence in depth-first       *)
(* declaration order, the root first; parent = 0 marks the root.           *)
(***************************************************************************)
Require(minimum, maximum) == [minimum |-> minimum, maximum |-> maximum]
NoRequire == Require(Nothing, Nothing)

Positional(name, type, defValue) == [name |-> name, type |-> type, defValue |-> defValue]

Endpoint(id, positionals, require, constraints) ==
    [id |-> id, positionals |-> positionals, require |-> require,
     constraints |-> constraints, hidden |-> FALSE]

Option(name, id, abbreviation, payload, type, defValue, require, links, constraints) ==
    [name |-> name, id |-> id, abbreviation |-> abbreviation, payload |-> payload,
     type |-> type, defValue |-> defValue, require |-> require, links |-> links,
     constraints |-> constraints, hidden |-> FALSE]

SpecialEntry(name, abbreviation, reducible) ==
    [name |-> name, abbreviation |-> abbreviation, reducible |-> reducible]
NoSpecialEntry == SpecialEntry(<<>>, NoChar, FALSE)

Arguments(parent, name, id, abbreviation, links, options, positionals, require, endpoints, constraints) ==
    [parent |-> parent, name |-> name, id |-> id, abbreviation |-> abbreviation,
     links |-> links, options |-> options, positionals |-> positionals,
     require |-> require, endpoints |-> endpoints, endpointId |-> 0,
     constraints |-> constraints, groupsName |-> <<>>, hidden |-> FALSE]

Config(program, version, help, versionEntry, nodes) ==
    [program |-> program, version |-> version, help |-> help,
     versionEntry |-> versionEntry, nodes |-> nodes]

\* arguments.groups.list of a node: its child groups in declaration order
Children(nodes, n) == { c \in 1..Len(nodes) : nodes[c].parent = n }

(***************************************************************************)
(* Validation (src/arger-verify.h).  Every Validate* operator yields the   *)
(* messages of the ConfigExceptions its code can throw, in the order in    *)
(* which the code reaches them: the exception thrown is the first one.     *)
(***************************************************************************)
ValidateType(type) ==
    IF type.kind = "enum" /\ Len(type.entries) = 0
    THEN <<"Enum must not be empty.">> ELSE <<>>

ValidateDefValue(type, value) ==
    IF type.kind = "enum"
    THEN IF value.t = "str" /\ HasValue(FindEnum(type.entries, value.s)) THEN <<>>
         ELSE <<"Default value must be a valid enum-string for the given type.">>
    ELSE IF type.kind = "boolean" /\ value.t # "bool"
    THEN <<"Default value is expected to be a boolean.">>
    ELSE <<>>

\* next.maximum of an endpoint
EndpointMaximum(minimumActual, count, maximum) ==
    IF ~HasValue(maximum) THEN Max(minimumActual, count)
    ELSE IF ValueOf(maximum) < minimumActual THEN 0
    ELSE ValueOf(maximum)

\* a variant for which one default makes every slot optional
EffectiveMinimumNone(positionals, minimum) ==
    IF \E i \in 1..Len(positionals) : HasValue(positionals[i].defValue)
    THEN 0
    ELSE minimum

\* next.minimumEffective of an endpoint: the minimum patched for the defaults
RECURSIVE EffectiveMinimum(_, _)
EffectiveMinimum(positionals, minimum) ==
    IF /\ minimum > 0
       /\ Len(positionals) > 0
       /\ HasValue(positionals[Min(Len(positionals), minimum)].defValue)
    THEN EffectiveMinimum(positionals, minimum - 1)
    ELSE minimum

ValidEndpoint(positionals, require, id, constraints, hidden) ==
    LET minimumActual == ValueOr(require.minimum, Len(positionals))
    IN  [positionals |-> positionals,
         constraints |-> constraints,
         id |-> id,
         hidden |-> hidden,
         minimumActual |-> minimumActual,
         maximum |-> EndpointMaximum(minimumActual, Len(positionals), require.maximum),
         minimumEffective |-> EffectiveMinimum(positionals, minimumActual)]

\* a variant that wants the positionals before a defaulted one defaulted
ValidatePositionalLeading(positionals, i, minimumEffective) ==
    (IF Len(positionals[i].name) = 0
     THEN <<"Positional argument must not have an empty name.">> ELSE <<>>)
    \o ValidateType(positionals[i].type)
    \o (IF ~HasValue(positionals[i].defValue) THEN <<>>
        ELSE ValidateDefValue(positionals[i].type, ValueOf(positionals[i].defValue))
             \o (IF \E j \in 1..(i - 1) : ~HasValue(positionals[j].defValue)
                 THEN <<"All positionals up to the minimum must be defaulted once one is defaulted.">>
                 ELSE <<>>))

ValidatePositional(positionals, i, minimumEffective) ==
    (IF Len(positionals[i].name) = 0
     THEN <<"Positional argument must not have an empty name.">> ELSE <<>>)
    \o ValidateType(positionals[i].type)
    \o (IF ~HasValue(positionals[i].defValue) THEN <<>>
        ELSE ValidateDefValue(positionals[i].type, ValueOf(positionals[i].defValue))
             \o (IF i - 1 < minimumEffective
                 THEN <<"All positionals up to the minimum must be defaulted once one is defaulted.">>
                 ELSE <<>>))

\* a variant that rejects every maximum below the number of positionals
ValidateEndpointStrict(positionals, require) ==
    LET next == ValidEndpoint(positionals, require, 0, <<>>, FALSE)
    IN  (IF HasValue(require.minimum) /\ Len(positionals) = 0
         THEN <<"Minimum requires at least one positional to be defined.">> ELSE <<>>)
        \o (IF /\ HasValue(require.maximum)
               /\ ValueOf(require.maximum) < Len(positionals)
               /\ ValueOf(require.maximum) > 0
            THEN <<"Maximum must be at least the number of positionals.">> ELSE <<>>)
        \o Concat([i \in 1..Len(positionals) |->
                      ValidatePositional(positionals, i, next.minimumEffective)])

ValidateEndpoint(positionals, require) ==
    LET next == ValidEndpoint(positionals, require, 0, <<>>, FALSE)
    IN  (IF HasValue(require.minimum) /\ Len(positionals) = 0
         THEN <<"Minimum requires at least one positional to be defined.">> ELSE <<>>)
        \o (IF /\ HasValue(require.maximum)
               /\ ValueOf(require.maximum) >= next.minimumActual
               /\ ValueOf(require.maximum) < Len(positionals)
               /\ ValueOf(require.maximum) > 0
            THEN <<"Maximum must be at least the number of positionals.">> ELSE <<>>)
        \o Concat([i \in 1..Len(positionals) |->
                      ValidatePositional(positionals, i, next.minimumEffective)])

\* the sorted endpoint list std::sort may leave behind: the order of endpoints
\* with the same effective minimum is unspecified
SortedEndpoints(endpoints) ==
    LET n == Len(endpoints)
        perms == { p \in [1..n -> 1..n] : \A i, j \in 1..n : i # j => p[i] # p[j] }
    IN  { [i \in 1..n |-> endpoints[p[i]]] : p \in
             { q \in perms : \A i \in 1..(n - 1) :
                   ~(endpoints[q[i + 1]].minimumEffective < endpoints[q[i]].minimumEffective) } }

\* the check that the sorted endpoints can be told apart
ValidateOverlap(sorted) ==
    IF \E i \in 2..Len(sorted) : sorted[i - 1].maximum >= sorted[i].minimumEffective
    THEN <<"Endpoint positional effective requirement counts must not overlap in order to ensure each endpoint can be matched uniquely.">>
    ELSE <<>>

ValidateSpecialEntry(help, version, name, abbreviation) ==
    (IF HasValue(help)
     THEN (IF name = ValueOf(help).name
           THEN <<"Name clashes with help entry name.">> ELSE <<>>)
          \o (IF abbreviation # NoChar /\ abbreviation = ValueOf(help).abbreviation
              THEN <<"Abbreviation clashes with help entry abbreviation.">> ELSE <<>>)
     ELSE <<>>)
    \o (IF HasValue(version)
        THEN (IF name = ValueOf(version).name
              THEN <<"Name clashes with version entry name.">> ELSE <<>>)
             \o (IF abbreviation # NoChar /\ abbreviation = ValueOf(version).abbreviation
                 THEN <<"Abbreviation clashes with version entry abbreviation.">> ELSE <<>>)
        ELSE <<>>)

\* out.help and out.version: the special entries in use
ValidHelp(cfg) == IF Len(cfg.help.name) > 0 THEN Some(cfg.help) ELSE Nothing
ValidVersion(cfg) == IF Len(cfg.versionEntry.name) > 0 THEN Some(cfg.versionEntry) ELSE Nothing

\* entry.minimumActual, entry.minimumEffective and entry.maximum of an option
OptionMinimumActual(option) == ValueOr(option.require.minimum, 0)
OptionMinimumEffective(option) ==
    IF Len(option.defValue) = 0 THEN OptionMinimumActual(option) ELSE 0
\* a variant that lets an option without a declared maximum be given once only
OptionMaximumOne(option) ==
    IF ~HasValue(option.require.maximum) THEN 1
    ELSE IF ValueOf(option.require.maximum) < OptionMinimumActual(option) THEN 0
    ELSE ValueOf(option.require.maximum)
OptionMaximum(option) ==
    IF ~HasValue(option.require.maximum) THEN Max(OptionMinimumActual(option), 1)
    ELSE IF ValueOf(option.require.maximum) < OptionMinimumActual(option) THEN 0
    ELSE ValueOf(option.require.maximum)

\* the options in the order in which the validation walks them, each with its owner
AllOptions(nodes) ==
    Concat([n \in 1..Len(nodes) |->
               [k \in 1..Len(nodes[n].options) |-> [owner |-> n, option |-> nodes[n].options[k]]]])

\* the position of option k of node n in AllOptions
RECURSIVE OptionIndex(_, _, _)
OptionIndex(nodes, n, k) ==
    IF n = 1 THEN k ELSE Len(nodes[n - 1].options) + OptionIndex(nodes, n - 1, k)

\* a variant that compares the id with the earlier options of the same node only
ValidateOptionOwnIds(cfg, index) ==
    LET all == AllOptions(cfg.nodes)
        option == all[index].option
        before == { all[i].option : i \in 1..(index - 1) }
        own == { all[i].option : i \in { j \in 1..(index - 1) : all[j].owner = all[index].owner } }
    IN  (IF Len(option.name) <= 1
         THEN <<"Option name must at least be two characters long.">> ELSE <<>>)
        \o (IF Len(option.name) > 0 /\ option.name[1] = "-"
            THEN <<"Option name must not start with a hypen.">> ELSE <<>>)
        \o (IF \E o \in before : o.name = option.name
            THEN <<"Option names must be unique.">> ELSE <<>>)
        \o (IF option.abbreviation # NoChar
               /\ \E o \in before : o.abbreviation = option.abbreviation
            THEN <<"Option abbreviations must be unique.">> ELSE <<>>)
        \o (IF \E o \in own : o.id = option.id
            THEN <<"Option ids must be unique.">> ELSE <<>>)
        \o (IF Len(cfg.program) > 0
            THEN ValidateSpecialEntry(ValidHelp(cfg), ValidVersion(cfg), option.name, option.abbreviation)
            ELSE <<>>)
        \o (IF option.payload THEN ValidateType(option.type)
            ELSE IF HasValue(option.require.minimum) \/ HasValue(option.require.maximum)
            THEN <<"Flags cannot have requirements defined.">>
            ELSE IF Len(option.defValue) > 0
            THEN <<"Default values are not allowed for flags without payload.">>
            ELSE <<>>)

ValidateOption(cfg, index) ==
    LET all == AllOptions(cfg.nodes)
        option == all[index].option
        before == { all[i].option : i \in 1..(index - 1) }
    IN  (IF Len(option.name) <= 1
         THEN <<"Option name must at least be two characters long.">> ELSE <<>>)
        \o (IF Len(option.name) > 0 /\ option.name[1] = "-"
            THEN <<"Option name must not start with a hypen.">> ELSE <<>>)
        \o (IF \E o \in before : o.name = option.name
            THEN <<"Option names must be unique.">> ELSE <<>>)
        \o (IF option.abbreviation # NoChar
               /\ \E o \in before : o.abbreviation = option.abbreviation
            THEN <<"Option abbreviations must be unique.">> ELSE <<>>)
        \o (IF \E o \in before : o.id = option.id
            THEN <<"Option ids must be unique.">> ELSE <<>>)
        \o (IF Len(cfg.program) > 0
            THEN ValidateSpecialEntry(ValidHelp(cfg), ValidVersion(cfg), option.name, option.abbreviation)
            ELSE <<>>)
        \o (IF option.payload THEN ValidateType(option.type)
            ELSE IF HasValue(option.require.minimum) \/ HasValue(option.require.maximum)
            THEN <<"Flags cannot have requirements defined.">>
            ELSE IF Len(option.defValue) > 0
            THEN <<"Default values are not allowed for flags without payload.">>
            ELSE <<>>)
        \o (IF option.payload /\ Len(option.defValue) > 0
            THEN (IF Len(option.defValue) < OptionMinimumActual(option)
                  THEN <<"Default values for option must not violate its own minimum requirements.">>
                  ELSE <<>>)
                 \o (IF OptionMaximum(option) > 0 /\ Len(option.defValue) > OptionMaximum(option)
                     THEN <<"Default values for option must not violate its own maximum requirements.">>
                     ELSE <<>>)
                 \o Concat([i \in 1..Len(option.defValue) |->
                               ValidateDefValue(option.type, option.defValue[i])])
            ELSE <<>>)

\* a variant that sets up no endpoint for a node that declares no positionals
DeclaredEndpointsNone(node) ==
    IF Len(node.endpoints) = 0
    THEN IF Len(node.positionals) = 0 THEN <<>>
         ELSE <<ValidEndpoint(node.positionals, node.require, node.endpointId, Nothing, node.hidden)>>
    ELSE [i \in 1..Len(node.endpoints) |->
             ValidEndpoint(node.endpoints[i].positionals, node.endpoints[i].require,
                           node.endpoints[i].id, Some(node.endpoints[i].constraints),
                           node.hidden \/ node.endpoints[i].hidden)]

\* the endpoints ValidateArguments sets up for a node without groups, as declared
DeclaredEndpoints(node) ==
    IF Len(node.endpoints) = 0
    THEN <<ValidEndpoint(node.positionals, node.require, node.endpointId, Nothing, node.hidden)>>
    ELSE [i \in 1..Len(node.endpoints) |->
             ValidEndpoint(node.endpoints[i].positionals, node.endpoints[i].require,
                           node.endpoints[i].id, Some(node.endpoints[i].constraints),
                           node.hidden \/ node.endpoints[i].hidden)]

\* the choices of the sorted endpoint lists of all nodes
EndpointOrders(cfg) ==
    LET N == Len(cfg.nodes)
        choices(n) == IF Children(cfg.nodes, n) # {} THEN { <<>> }
                      ELSE SortedEndpoints(DeclaredEndpoints(cfg.nodes[n]))
    IN  { f \in [1..N -> UNION { choices(n) : n \in 1..N }] : \A n \in 1..N : f[n] \in choices(n) }

\* a variant that compares a group with the earlier groups of the whole tree
ValidateGroupWholeTree(cfg, n, c) ==
    LET sub == cfg.nodes[c]
        earlier == { cfg.nodes[d] : d \in 2..(c - 1) }
    IN  (IF Len(sub.name) <= 1
         THEN <<"Group name must at least be two characters long.">> ELSE <<>>)
        \o (IF Len(sub.name) > 0 /\ sub.name[1] = "-"
            THEN <<"Group name must not start with a hypen.">> ELSE <<>>)
        \o (IF \E g \in earlier : g.name = sub.name
            THEN <<"Group names within a sub-group must be unique.">> ELSE <<>>)
        \o (IF sub.abbreviation # NoChar /\ \E g \in earlier : g.abbreviation = sub.abbreviation
            THEN <<"Group abbreviations within a sub-group must be unique.">> ELSE <<>>)
        \o (IF Len(cfg.program) = 0
            THEN ValidateSpecialEntry(ValidHelp(cfg), ValidVersion(cfg), sub.name, sub.abbreviation)
            ELSE <<>>)

ValidateGroup(cfg, n, c) ==
    LET sub == cfg.nodes[c]
        earlier == { cfg.nodes[d] : d \in { e \in Children(cfg.nodes, n) : e < c } }
    IN  (IF Len(sub.name) <= 1
         THEN <<"Group name must at least be two characters long.">> ELSE <<>>)
        \o (IF Len(sub.name) > 0 /\ sub.name[1] = "-"
            THEN <<"Group name must not start with a hypen.">> ELSE <<>>)
        \o (IF \E g \in earlier : g.name = sub.name
            THEN <<"Group names within a sub-group must be unique.">> ELSE <<>>)
        \o (IF sub.abbreviation # NoChar /\ \E g \in earlier : g.abbreviation = sub.abbreviation
            THEN <<"Group abbreviations within a sub-group must be unique.">> ELSE <<>>)
        \o (IF Len(cfg.program) = 0
            THEN ValidateSpecialEntry(ValidHelp(cfg), ValidVersion(cfg), sub.name, sub.abbreviation)
            ELSE <<>>)

\* the sequence of the elements of a set of numbers, ascending
RECURSIVE Ascending(_)
Ascending(S) ==
    IF S = {} THEN <<>>
    ELSE LET least == CHOOSE x \in S : \A y \in S : x <= y
         IN  <<least>> \o Ascending(S \ {least})

RECURSIVE ValidateArguments(_, _, _)
ValidateArguments(cfg, order, n) ==
    LET node == cfg.nodes[n]
        subs == Ascending(Children(cfg.nodes, n))
    IN  Concat([k \in 1..Len(node.options) |-> ValidateOption(cfg, OptionIndex(cfg.nodes, n, k))])
        \o (IF Len(subs) > 0
            THEN (IF Len(node.positionals) > 0 \/ Len(node.endpoints) > 0
                  THEN <<"Groups and positional arguments cannot be used in conjunction.">>
                  ELSE <<>>)
                 \o Concat([i \in 1..Len(subs) |->
                               ValidateGroup(cfg, n, subs[i]) \o ValidateArguments(cfg, order, subs[i])])
            ELSE (IF Len(node.endpoints) = 0
                  THEN ValidateEndpoint(node.positionals, node.require)
                  ELSE (IF \/ Len(node.positionals) > 0
                           \/ HasValue(node.require.minimum)
                           \/ HasValue(node.require.maximum)
                        THEN <<"Implicit and explicit endpoints cannot be used in conjunction.">>
                        ELSE <<>>)
                       \o Concat([i \in 1..Len(node.endpoints) |->
                                     ValidateEndpoint(node.endpoints[i].positionals,
                                                      node.endpoints[i].require)]))
                 \o ValidateOverlap(order[n]))

\* entry.depth: the root has depth 0
RECURSIVE Depth(_, _)
Depth(nodes, n) == IF nodes[n].parent = 0 THEN 0 ELSE 1 + Depth(nodes, nodes[n].parent)

\* the part of the validated tree the containment rule reads: super and depth
Tree(nodes) == [n \in 1..Len(nodes) |-> [super |-> nodes[n].parent, depth |-> Depth(nodes, n)]]

\* whether parent is found on the super-chain of child (child itself included)
RECURSIVE CheckParentWalk(_, _, _)
CheckParentWalk(tree, parent, child) ==
    IF child = 0 THEN FALSE
    ELSE IF child = parent THEN TRUE
    ELSE CheckParentWalk(tree, parent, tree[child].super)

CheckParent(tree, parent, child) ==
    IF tree[child].depth < tree[parent].depth THEN FALSE
    ELSE CheckParentWalk(tree, parent, child)

\* a variant that accepts a link to the tested node only, not to its parents
CheckUsageSelf(tree, links, test) == test \in links

\* whether test, or a parent of test, is linked (links: the link set of an option)
CheckUsage(tree, links, test) ==
    \E link \in links :
        IF tree[link].depth < tree[test].depth
        THEN CheckParent(tree, link, test)
        ELSE CheckParent(tree, test, link)

\* the groups that share a reference id with the given ids (state.refs)
LinkedGroups(nodes, ids) == { n \in 1..Len(nodes) : nodes[n].links \cap ids # {} }

\* a variant that also accepts a group above the owner of the object
ValidateLinkRelated(nodes, owner, ids) ==
    IF \E n \in LinkedGroups(nodes, ids) :
          ~CheckParent(Tree(nodes), owner, n) /\ ~CheckParent(Tree(nodes), n, owner)
    THEN <<"Group cannot be linked to objects from another group.">> ELSE <<>>

\* ValidateLink for every group linked to the object owned by owner
ValidateLink(nodes, owner, ids) ==
    IF \E n \in LinkedGroups(nodes, ids) : ~CheckParent(Tree(nodes), owner, n)
    THEN <<"Group cannot be linked to objects from another group.">> ELSE <<>>

\* link->links once ValidateLinkEntries and ValidateLinkEntry are through
\* a variant that leaves an option without a linked group without any link
ResolvedLinksNone(nodes, owner, ids) == LinkedGroups(nodes, ids)

ResolvedLinks(nodes, owner, ids) ==
    IF LinkedGroups(nodes, ids) = {} THEN {owner} ELSE LinkedGroups(nodes, ids)

ValidateLinkEntries(cfg) ==
    LET all == AllOptions(cfg.nodes)
    IN  Concat([i \in 1..Len(all) |-> ValidateLink(cfg.nodes, all[i].owner, all[i].option.links)])

ValidateSpecialEntries(cfg) ==
    (IF Len(cfg.help.name) > 0
     THEN (IF Len(cfg.help.name) <= 1
           THEN <<"Help entry name must at least be two characters long.">> ELSE <<>>)
          \o (IF cfg.versionEntry.name = cfg.help.name
              THEN <<"Help entry and version entry cannot have the same name.">> ELSE <<>>)
          \o (IF cfg.help.reducible /\ cfg.help.abbreviation = NoChar
              THEN <<"Reducible help entry requires a defined abbreviarion.">> ELSE <<>>)
          \o (IF /\ Len(cfg.versionEntry.name) > 0
                 /\ cfg.help.abbreviation # NoChar
                 /\ cfg.help.abbreviation = cfg.versionEntry.abbreviation
              THEN <<"Help entry and version entry cannot have the same abbreviation.">> ELSE <<>>)
     ELSE <<>>)
    \o (IF Len(cfg.versionEntry.name) > 0
        THEN (IF Len(cfg.versionEntry.name) <= 1
              THEN <<"Version entry name must at least be two characters long.">> ELSE <<>>)
             \o (IF Len(cfg.version) = 0
                 THEN <<"Version string must be set when using a version entry.">> ELSE <<>>)
        ELSE <<>>)

\* the ConfigExceptions of ValidateConfig in the order the code reaches them
ConfigErrors(cfg, order) ==
    ValidateSpecialEntries(cfg) \o ValidateArguments(cfg, order, 1) \o ValidateLinkEntries(cfg)

ValidArguments(cfg, order, n) ==
    [super |-> cfg.nodes[n].parent,
     depth |-> Depth(cfg.nodes, n),
     sub |-> Children(cfg.nodes, n),
     endpoints |-> order[n],
     constraints |-> cfg.nodes[n].constraints,
     group |-> [name |-> cfg.nodes[n].name, id |-> cfg.nodes[n].id,
                abbreviation |-> cfg.nodes[n].abbreviation]]

ValidOption(cfg, entry) ==
    [name |-> entry.option.name,
     option |-> entry.option,
     owner |-> entry.owner,
     links |-> ResolvedLinks(cfg.nodes, entry.owner, entry.option.links),
     payload |-> entry.option.payload,
     minimumActual |-> OptionMinimumActual(entry.option),
     minimumEffective |-> OptionMinimumEffective(entry.option),
     maximum |-> OptionMaximum(entry.option)]

\* the validated configuration: the tree, the options in the key order of
\* std::map<std::wstring, ValidOption>, and the special entries
ValidConfig(cfg, order) ==
    [program |-> cfg.program,
     nodes |-> [n \in 1..Len(cfg.nodes) |-> ValidArguments(cfg, order, n)],
     options |-> SortByName({ ValidOption(cfg, e) : e \in Range(AllOptions(cfg.nodes)) }),
     help |-> ValidHelp(cfg),
     version |-> ValidVersion(cfg)]

(***************************************************************************)
(* The parser (src/arger-parser.h).  A message is the kind of the          *)
(* exception text and the name or value it is built around; an event of    *)
(* the history variable trace records a point the code passes through.     *)
(***************************************************************************)
Message(kind, str) == [kind |-> kind, str |-> str]
Event(ev, index, id, str) == [ev |-> ev, index |-> index, id |-> id, str |-> str]

EmptyParsed ==
    [pFlags |-> {}, pOptions |-> <<>>, pPositional |-> <<>>, pGroupIds |-> <<>>,
     pEndpoint |-> 0, pSuppliedPositionals |-> 0]

\* pConfig.options.find(name) and pConfig.abbreviations.find(c)
FindOption(options, name) ==
    IF \E i \in 1..Len(options) : options[i].name = name
    THEN Some(options[CHOOSE i \in 1..Len(options) : options[i].name = name])
    ELSE Nothing
FindAbbreviation(options, c) ==
    IF \E i \in 1..Len(options) : options[i].option.abbreviation = c /\ c # NoChar
    THEN Some(options[CHOOSE i \in 1..Len(options) : options[i].option.abbreviation = c])
    ELSE Nothing

\* pParsed.pOptions is a map from the option id to the values and the supplied count
HasOption(pOptions, id) == id \in DOMAIN pOptions
PutOption(pOptions, id, values, count) ==
    [i \in (DOMAIN pOptions) \cup {id} |->
        IF i = id THEN [values |-> values, supplied |-> count] ELSE pOptions[i]]

\* a variant that keeps the latest error instead of the first
DeferLatest(st, message, index) ==
    [st EXCEPT !.pDeferred = Some(message),
               !.trace = Append(st.trace, Event("error", index, 0, message))]

\* records the deferred error unless one is recorded already
Defer(st, message, index) ==
    [st EXCEPT !.pDeferred = IF HasValue(st.pDeferred) THEN st.pDeferred ELSE Some(message),
               !.trace = Append(st.trace, Event("error", index, 0, message))]

\* a variant in which every entry of the run takes the inline payload
ParseEntryShared(st, entry, payload, hasPayload, args, token) ==
    LET id == entry.option.id
        values == IF HasOption(st.pParsed.pOptions, id) THEN st.pParsed.pOptions[id].values ELSE <<>>
    IN  IF ~entry.payload
        THEN [st EXCEPT !.pParsed.pFlags = st.pParsed.pFlags \cup {id},
                        !.trace = Append(st.trace, Event("flag", token, id, entry.name))]
        ELSE IF (st.payloadUsed /\ ~hasPayload) \/ (~hasPayload /\ st.pIndex >= Len(args))
        THEN [st EXCEPT !.pParsed.pOptions = PutOption(st.pParsed.pOptions, id, <<>>, 0),
                        !.trace = Append(st.trace, Event("forgotten", token, id, entry.name))]
        ELSE IF hasPayload
        THEN [st EXCEPT !.pParsed.pOptions = PutOption(st.pParsed.pOptions, id, Append(values, StrValue(payload)), 0),
                        !.payloadUsed = TRUE,
                        !.trace = Append(st.trace, Event("inline", token, id, payload))]
        ELSE [st EXCEPT !.pParsed.pOptions = PutOption(st.pParsed.pOptions, id,
                                               Append(values, StrValue(args[st.pIndex + 1])), 0),
                        !.payloadUsed = TRUE,
                        !.pIndex = st.pIndex + 1,
                        !.trace = Append(st.trace, Event("payload", token, id, args[st.pIndex + 1]))]

\* a variant that keeps the latest flag only
ParseEntryLatestFlag(st, entry, payload, hasPayload, args, token) ==
    LET id == entry.option.id
        values == IF HasOption(st.pParsed.pOptions, id) THEN st.pParsed.pOptions[id].values ELSE <<>>
    IN  IF ~entry.payload
        THEN [st EXCEPT !.pParsed.pFlags = {id},
                        !.trace = Append(st.trace, Event("flag", token, id, entry.name))]
        ELSE IF st.payloadUsed \/ (~hasPayload /\ st.pIndex >= Len(args))
        THEN [st EXCEPT !.pParsed.pOptions = PutOption(st.pParsed.pOptions, id, <<>>, 0),
                        !.trace = Append(st.trace, Event("forgotten", token, id, entry.name))]
        ELSE IF hasPayload
        THEN [st EXCEPT !.pParsed.pOptions = PutOption(st.pParsed.pOptions, id, Append(values, StrValue(payload)), 0),
                        !.payloadUsed = TRUE,
                        !.trace = Append(st.trace, Event("inline", token, id, payload))]
        ELSE [st EXCEPT !.pParsed.pOptions = PutOption(st.pParsed.pOptions, id,
                                               Append(values, StrValue(args[st.pIndex + 1])), 0),
                        !.payloadUsed = TRUE,
                        !.pIndex = st.pIndex + 1,
                        !.trace = Append(st.trace, Event("payload", token, id, args[st.pIndex + 1]))]

\* a variant that takes the next token as the value and leaves it to the scan
ParseEntryKeepsToken(st, entry, payload, hasPayload, args, token) ==
    LET id == entry.option.id
        values == IF HasOption(st.pParsed.pOptions, id) THEN st.pParsed.pOptions[id].values ELSE <<>>
    IN  IF ~entry.payload
        THEN [st EXCEPT !.pParsed.pFlags = st.pParsed.pFlags \cup {id},
                        !.trace = Append(st.trace, Event("flag", token, id, entry.name))]
        ELSE IF st.payloadUsed \/ (~hasPayload /\ st.pIndex >= Len(args))
        THEN [st EXCEPT !.pParsed.pOptions = PutOption(st.pParsed.pOptions, id, <<>>, 0),
                        !.trace = Append(st.trace, Event("forgotten", token, id, entry.name))]
        ELSE IF hasPayload
        THEN [st EXCEPT !.pParsed.pOptions = PutOption(st.pParsed.pOptions, id, Append(values, StrValue(payload)), 0),
                        !.payloadUsed = TRUE,
                        !.trace = Append(st.trace, Event("inline", token, id, payload))]
        ELSE [st EXCEPT !.pParsed.pOptions = PutOption(st.pParsed.pOptions, id,
                                               Append(values, StrValue(args[st.pIndex + 1])), 0),
                        !.payloadUsed = TRUE,
                        !.trace = Append(st.trace, Event("payload", token, id, args[st.pIndex + 1]))]

\* the body of the loop of fParseOptional for the resolved entry
ParseEntry(st, entry, payload, hasPayload, args, token) ==
    LET id == entry.option.id
        values == IF HasOption(st.pParsed.pOptions, id) THEN st.pParsed.pOptions[id].values ELSE <<>>
    IN  IF ~entry.payload
        THEN [st EXCEPT !.pParsed.pFlags = st.pParsed.pFlags \cup {id},
                        !.trace = Append(st.trace, Event("flag", token, id, entry.name))]
        ELSE IF st.payloadUsed \/ (~hasPayload /\ st.pIndex >= Len(args))
        THEN [st EXCEPT !.pParsed.pOptions = PutOption(st.pParsed.pOptions, id, <<>>, 0),
                        !.trace = Append(st.trace, Event("forgotten", token, id, entry.name))]
        ELSE IF hasPayload
        THEN [st EXCEPT !.pParsed.pOptions = PutOption(st.pParsed.pOptions, id, Append(values, StrValue(payload)), 0),
                        !.payloadUsed = TRUE,
                        !.trace = Append(st.trace, Event("inline", token, id, payload))]
        ELSE [st EXCEPT !.pParsed.pOptions = PutOption(st.pParsed.pOptions, id,
                                               Append(values, StrValue(args[st.pIndex + 1])), 0),
                        !.payloadUsed = TRUE,
                        !.pIndex = st.pIndex + 1,
                        !.trace = Append(st.trace, Event("payload", token, id, args[st.pIndex + 1]))]

\* the loop of fParseOptional from position i (0-based) of arg on
RECURSIVE ParseEntries(_, _, _, _, _, _, _, _, _)
ParseEntries(st, valid, arg, i, payload, fullName, hasPayload, args, token) ==
    LET program == Len(valid.program) > 0
        c == arg[i + 1]
        again(s, j) == ParseEntries(s, valid, arg, j, payload, fullName, hasPayload, args, token)
    IN  IF i >= Len(arg) THEN st
        ELSE IF fullName
        THEN IF ~HasValue(FindOption(valid.options, arg))
             THEN again(Defer(st, Message("UnknownOption", arg), token), i + 1)
             ELSE ParseEntry(st, ValueOf(FindOption(valid.options, arg)), payload, hasPayload, args, token)
        ELSE IF program /\ HasValue(valid.help) /\ ValueOf(valid.help).abbreviation = c
        THEN again([st EXCEPT !.pPrintHelp = IF st.pPrintHelp # "full" THEN "reduced" ELSE "full"], i + 1)
        ELSE IF program /\ HasValue(valid.version) /\ ValueOf(valid.version).abbreviation = c
        THEN again([st EXCEPT !.pPrintVersion = TRUE], i + 1)
        ELSE IF ~HasValue(FindAbbreviation(valid.options, c))
        THEN again(Defer(st, Message("UnknownAbbreviation", <<c>>), token), i + 1)
        ELSE again(ParseEntry(st, ValueOf(FindAbbreviation(valid.options, c)),
                              payload, hasPayload, args, token), i + 1)

fParseOptional(st, valid, arg, payload, fullName, hasPayload, args, token) ==
    LET program == Len(valid.program) > 0
        start == [st EXCEPT !.payloadUsed = FALSE]
        isHelp == fullName /\ program /\ HasValue(valid.help) /\ ValueOf(valid.help).name = arg
        isVersion == /\ fullName /\ program /\ ~isHelp
                     /\ HasValue(valid.version) /\ ValueOf(valid.version).name = arg
        special == IF isHelp THEN [start EXCEPT !.pPrintHelp = "full"]
                   ELSE IF isVersion THEN [start EXCEPT !.pPrintVersion = TRUE]
                   ELSE start
        looped == ParseEntries(special, valid, arg, IF isHelp \/ isVersion THEN Len(arg) ELSE 0,
                               payload, fullName, hasPayload, args, token)
    IN  IF hasPayload /\ ~looped.payloadUsed
        THEN Defer(looped, Message("ValueNotUsed", payload), token)
        ELSE looped

\* the split of an option token: the position of the first '=' from the second
\* character on (0 when there is none), and the number of leading hyphens
PayloadSplit(next) ==
    IF \E i \in 2..Len(next) : next[i] = "="
    THEN CHOOSE i \in 2..Len(next) : next[i] = "=" /\ \A j \in 2..(i - 1) : next[j] # "="
    ELSE 0
HypenCount(next) == IF Len(next) > 2 /\ next[2] = "-" THEN 2 ELSE 1

\* a variant that knows a special entry of a menu by its name only
MatchesSpecialName(entry, next) == HasValue(entry) /\ next = ValueOf(entry).name

\* the menu-mode test of a token against a special entry
MatchesSpecial(entry, next) ==
    /\ HasValue(entry)
    /\ IF Len(next) # 1 THEN next = ValueOf(entry).name
       ELSE ValueOf(entry).abbreviation = next[1] /\ next[1] # NoChar

\* a variant that finds the group of that name anywhere in the tree
FindGroupAnywhere(valid, node, next) ==
    LET byName == { c \in 2..Len(valid.nodes) : valid.nodes[c].group.name = next }
    IN  IF byName # {} THEN Some(CHOOSE c \in byName : TRUE) ELSE Nothing

\* the child group a token selects: by name, then by abbreviation
FindGroup(valid, node, next) ==
    LET subs == valid.nodes[node].sub
        byName == { c \in subs : valid.nodes[c].group.name = next }
        byAbbreviation == { c \in subs : /\ Len(next) = 1
                                         /\ valid.nodes[c].group.abbreviation = next[1] }
    IN  IF byName # {} THEN Some(CHOOSE c \in byName : TRUE)
        ELSE IF byAbbreviation # {} THEN Some(CHOOSE c \in byAbbreviation : TRUE)
        ELSE Nothing

\* a variant that keeps looking for options after the positional lock
ScanStepUnlocked(st, valid, args) ==
    LET token == st.pIndex + 1
        next == args[token]
        taken == [st EXCEPT !.pIndex = token]
        menu == Len(valid.program) = 0 /\ Len(st.pParsed.pPositional) = 0
        split == PayloadSplit(next)
        hasPayload == split # 0
        end == IF hasPayload THEN split - 1 ELSE Len(next)
        payload == IF hasPayload THEN SubSeq(next, split + 1, Len(next)) ELSE <<>>
        group == FindGroup(valid, st.pTopMost, next)
    IN  IF menu /\ MatchesSpecial(valid.help, next)
        THEN [taken EXCEPT !.pPrintHelp = IF Len(next) > 1 \/ st.pPrintHelp = "full"
                                          THEN "full" ELSE "reduced",
                           !.trace = Append(st.trace, Event("help", token, 0, next))]
        ELSE IF menu /\ MatchesSpecial(valid.version, next)
        THEN [taken EXCEPT !.pPrintVersion = TRUE,
                           !.trace = Append(st.trace, Event("version", token, 0, next))]
        ELSE IF Len(next) > 0 /\ next[1] = "-"
        THEN IF next = <<"-", "-">>
             THEN [taken EXCEPT !.pPositionalLocked = TRUE,
                                !.trace = Append(st.trace, Event("lock", token, 0, next))]
             ELSE fParseOptional([taken EXCEPT !.trace = Append(st.trace, Event("option", token, 0, next))],
                                 valid, SubSeq(next, HypenCount(next) + 1, end), payload,
                                 HypenCount(next) = 2, hasPayload, args, token)
        ELSE IF Len(valid.nodes[st.pTopMost].endpoints) = 0
        THEN IF HasValue(group)
             THEN [taken EXCEPT !.pTopMost = ValueOf(group),
                                !.pParsed.pGroupIds = Append(st.pParsed.pGroupIds,
                                                            valid.nodes[ValueOf(group)].group.id),
                                !.trace = Append(st.trace, Event("group", token, ValueOf(group), next))]
             ELSE Defer([taken EXCEPT !.trace = Append(st.trace, Event("nogroup", token, 0, next))],
                        Message("UnknownGroup", next), token)
        ELSE [taken EXCEPT !.pParsed.pPositional = Append(st.pParsed.pPositional, StrValue(next)),
                           !.trace = Append(st.trace, Event("positional", token, 0, next))]

\* one iteration of the scan loop of parse(): the token at pIndex and, for an
\* option that takes it, the token after it
ScanStep(st, valid, args) ==
    LET token == st.pIndex + 1
        next == args[token]
        taken == [st EXCEPT !.pIndex = token]
        menu == Len(valid.program) = 0 /\ Len(st.pParsed.pPositional) = 0
        split == PayloadSplit(next)
        hasPayload == split # 0
        end == IF hasPayload THEN split - 1 ELSE Len(next)
        payload == IF hasPayload THEN SubSeq(next, split + 1, Len(next)) ELSE <<>>
        group == FindGroup(valid, st.pTopMost, next)
    IN  IF menu /\ MatchesSpecial(valid.help, next)
        THEN [taken EXCEPT !.pPrintHelp = IF Len(next) > 1 \/ st.pPrintHelp = "full"
                                          THEN "full" ELSE "reduced",
                           !.trace = Append(st.trace, Event("help", token, 0, next))]
        ELSE IF menu /\ MatchesSpecial(valid.version, next)
        THEN [taken EXCEPT !.pPrintVersion = TRUE,
                           !.trace = Append(st.trace, Event("version", token, 0, next))]
        ELSE IF ~st.pPositionalLocked /\ Len(next) > 0 /\ next[1] = "-"
        THEN IF next = <<"-", "-">>
             THEN [taken EXCEPT !.pPositionalLocked = TRUE,
                                !.trace = Append(st.trace, Event("lock", token, 0, next))]
             ELSE fParseOptional([taken EXCEPT !.trace = Append(st.trace, Event("option", token, 0, next))],
                                 valid, SubSeq(next, HypenCount(next) + 1, end), payload,
                                 HypenCount(next) = 2, hasPayload, args, token)
        ELSE IF Len(valid.nodes[st.pTopMost].endpoints) = 0
        THEN IF HasValue(group)
             THEN [taken EXCEPT !.pTopMost = ValueOf(group),
                                !.pParsed.pGroupIds = Append(st.pParsed.pGroupIds,
                                                            valid.nodes[ValueOf(group)].group.id),
                                !.trace = Append(st.trace, Event("group", token, ValueOf(group), next))]
             ELSE Defer([taken EXCEPT !.trace = Append(st.trace, Event("nogroup", token, 0, next))],
                        Message("UnknownGroup", next), token)
        ELSE [taken EXCEPT !.pParsed.pPositional = Append(st.pParsed.pPositional, StrValue(next)),
                           !.trace = Append(st.trace, Event("positional", token, 0, next))]

\* the one upper-case letter of the model's alphabet, for the case-insensitive compare
Lower(c) == IF c = "T" THEN "t" ELSE c
LowerStr(str) == [i \in 1..Len(str) |-> Lower(str[i])]

Checked(error, value) == [error |-> error, value |-> value]

\* the type check and conversion of a raw value (the numeric primitives, parsed
\* by a helper library, are not part of the model)
fVerifyValue(name, value, type, option) ==
    IF type.kind = "enum"
    THEN IF HasValue(FindEnum(type.entries, value.s))
         THEN Checked(Nothing, EnumValue(ValueOf(FindEnum(type.entries, value.s)).id))
         ELSE Checked(Some(Message(IF option THEN "InvalidEnumOption" ELSE "InvalidEnumArgument", name)), value)
    ELSE IF type.kind = "boolean"
    THEN IF LowerStr(value.s) = <<"t", "r", "u", "e">> \/ value.s = <<"1">>
         THEN Checked(Nothing, BoolValue(TRUE))
         ELSE IF LowerStr(value.s) = <<"f", "a", "l", "s", "e">> \/ value.s = <<"0">>
         THEN Checked(Nothing, BoolValue(FALSE))
         ELSE Checked(Some(Message(IF option THEN "InvalidBooleanOption" ELSE "InvalidBooleanArgument", name)), value)
    ELSE Checked(Nothing, value)

\* a variant that leaves a default as it was declared
fUnpackDefValueKeep(value, type) == value

fUnpackDefValue(value, type) ==
    IF type.kind # "enum" THEN value
    ELSE EnumValue(ValueOf(FindEnum(type.entries, value.s)).id)

\* the endpoint the selection loop of fVerifyPositional ends with (indices from 1)
RECURSIVE SelectEndpoint(_, _, _, _)
SelectEndpoint(endpoints, count, current, i) ==
    IF i > Len(endpoints) THEN current
    ELSE IF endpoints[i].minimumEffective <= count THEN SelectEndpoint(endpoints, count, i, i + 1)
    ELSE IF endpoints[current].maximum < count THEN i
    ELSE current

\* a variant that checks every supplied positional against the first declared one
RECURSIVE VerifyPositionalsFirstType(_, _, _)
VerifyPositionalsFirstType(endpoint, values, i) ==
    LET checked == fVerifyValue(endpoint.positionals[1].name, values[i + 1],
                                endpoint.positionals[1].type, FALSE)
    IN  IF i >= Len(values) THEN Checked(Nothing, values)
        ELSE IF Len(endpoint.positionals) = 0 \/ (endpoint.maximum > 0 /\ i >= endpoint.maximum)
        THEN Checked(Some(Message("UnrecognizedArgument", values[i + 1].s)), values)
        ELSE IF HasValue(checked.error) THEN Checked(checked.error, values)
        ELSE VerifyPositionalsFirstType(endpoint, [values EXCEPT ![i + 1] = checked.value], i + 1)

\* the verification loop over the supplied positionals from index i (0-based) on
RECURSIVE VerifyPositionals(_, _, _)
VerifyPositionals(endpoint, values, i) ==
    LET index == Min(i, Len(endpoint.positionals) - 1)
        checked == fVerifyValue(endpoint.positionals[index + 1].name, values[i + 1],
                                endpoint.positionals[index + 1].type, FALSE)
    IN  IF i >= Len(values) THEN Checked(Nothing, values)
        ELSE IF Len(endpoint.positionals) = 0 \/ (endpoint.maximum > 0 /\ i >= endpoint.maximum)
        THEN Checked(Some(Message("UnrecognizedArgument", values[i + 1].s)), values)
        ELSE IF HasValue(checked.error) THEN Checked(checked.error, values)
        ELSE VerifyPositionals(endpoint, [values EXCEPT ![i + 1] = checked.value], i + 1)

\* a variant that appends one default more than the minimum asks for
RECURSIVE FillDefaultsOneMore(_, _, _, _)
FillDefaultsOneMore(endpoint, values, i, minimum) ==
    LET index == Min(Len(endpoint.positionals) - 1, i)
        positional == endpoint.positionals[index + 1]
    IN  IF i > minimum \/ Len(endpoint.positionals) = 0 THEN values
        ELSE IF ~HasValue(positional.defValue) THEN values
        ELSE FillDefaultsOneMore(endpoint,
                          Append(values, fUnpackDefValue(ValueOf(positional.defValue), positional.type)),
                          i + 1, minimum)

\* the default values appended from slot i (0-based) on, below minimum
RECURSIVE FillDefaults(_, _, _, _)
FillDefaults(endpoint, values, i, minimum) ==
    LET index == Min(Len(endpoint.positionals) - 1, i)
        positional == endpoint.positionals[index + 1]
    IN  IF i >= minimum THEN values
        ELSE IF ~HasValue(positional.defValue) THEN values
        ELSE FillDefaults(endpoint,
                          Append(values, fUnpackDefValue(ValueOf(positional.defValue), positional.type)),
                          i + 1, minimum)

\* fVerifyPositional: the error thrown, or the parsed structure and the endpoint selected
\* a variant that refuses the positionals of a hidden endpoint
fVerifyPositionalVisible(valid, topMost, parsed) ==
    LET endpoints == valid.nodes[topMost].endpoints
        count == Len(parsed.pPositional)
        endpoint == endpoints[SelectEndpoint(endpoints, count, 1, 2)]
        verified == VerifyPositionals(endpoint, parsed.pPositional, 0)
    IN  IF Len(endpoints) = 0 \/ endpoint.hidden
        THEN Checked(Some(Message("GroupMissing", <<>>)), parsed)
        ELSE IF HasValue(verified.error) THEN Checked(verified.error, parsed)
        ELSE IF count < endpoint.minimumEffective
        THEN Checked(Some(Message("ArgumentMissing",
                                  endpoint.positionals[Min(Len(endpoint.positionals) - 1, count) + 1].name)),
                     parsed)
        ELSE [error |-> Nothing,
              endpoint |-> SelectEndpoint(endpoints, count, 1, 2),
              value |->
                     [parsed EXCEPT !.pSuppliedPositionals = count,
                                    !.pEndpoint = endpoint.id,
                                    !.pPositional = FillDefaults(endpoint, verified.value, count,
                                                        Max(Len(endpoint.positionals), endpoint.minimumActual))]]

fVerifyPositional(valid, topMost, parsed) ==
    LET endpoints == valid.nodes[topMost].endpoints
        count == Len(parsed.pPositional)
        endpoint == endpoints[SelectEndpoint(endpoints, count, 1, 2)]
        verified == VerifyPositionals(endpoint, parsed.pPositional, 0)
    IN  IF Len(endpoints) = 0
        THEN Checked(Some(Message("GroupMissing", <<>>)), parsed)
        ELSE IF HasValue(verified.error) THEN Checked(verified.error, parsed)
        ELSE IF count < endpoint.minimumEffective
        THEN Checked(Some(Message("ArgumentMissing",
                                  endpoint.positionals[Min(Len(endpoint.positionals) - 1, count) + 1].name)),
                     parsed)
        ELSE [error |-> Nothing,
              endpoint |-> SelectEndpoint(endpoints, count, 1, 2),
              value |->
                     [parsed EXCEPT !.pSuppliedPositionals = count,
                                    !.pEndpoint = endpoint.id,
                                    !.pPositional = FillDefaults(endpoint, verified.value, count,
                                                        Max(Len(endpoint.positionals), endpoint.minimumActual))]]

\* the type check of the first count values of an option from index i (0-based) on
RECURSIVE VerifyValues(_, _, _, _, _)
VerifyValues(name, values, type, i, count) ==
    LET checked == fVerifyValue(name, values[i + 1], type, TRUE)
    IN  IF i >= count THEN Checked(Nothing, values)
        ELSE IF HasValue(checked.error) THEN Checked(checked.error, values)
        ELSE VerifyValues(name, [values EXCEPT ![i + 1] = checked.value], type, i + 1, count)

\* whether the option (or flag) occurred in the scan
Supplied(parsed, entry) ==
    IF entry.payload THEN HasOption(parsed.pOptions, entry.option.id)
    ELSE entry.option.id \in parsed.pFlags

\* the body of the loop of fVerifyOptional for one option
VerifyOption(valid, topMost, parsed, entry) ==
    LET id == entry.option.id
        present == HasOption(parsed.pOptions, id)
        supplied == IF present THEN parsed.pOptions[id].values ELSE <<>>
        count == Len(supplied)
        defValue == entry.option.defValue
        defaults == [i \in 1..(Len(defValue) - count) |->
                        fUnpackDefValue(defValue[count + i], entry.option.type)]
        verified == VerifyValues(entry.name, supplied, entry.option.type, 0, count)
    IN  IF ~CheckUsage(valid.nodes, entry.links, topMost) /\ Supplied(parsed, entry)
        THEN Checked(Some(Message("NotMeant", entry.name)), parsed)
        ELSE IF ~entry.payload THEN Checked(Nothing, parsed)
        ELSE IF present /\ count = 0
        THEN Checked(Some(Message("PayloadMissing", entry.name)), parsed)
        ELSE IF ~(count < Len(defValue)) /\ entry.minimumActual > count
        THEN Checked(Some(Message("OptionMissing", entry.name)), parsed)
        ELSE IF ~(count < Len(defValue)) /\ entry.maximum > 0 /\ count > entry.maximum
        THEN Checked(Some(Message("TooMany", entry.name)), parsed)
        ELSE IF HasValue(verified.error) THEN Checked(verified.error, parsed)
        ELSE IF count < Len(defValue)
        THEN Checked(Nothing, [parsed EXCEPT !.pOptions =
                         PutOption(parsed.pOptions, id, verified.value \o defaults, count)])
        ELSE IF present
        THEN Checked(Nothing, [parsed EXCEPT !.pOptions =
                         PutOption(parsed.pOptions, id, verified.value, count)])
        ELSE Checked(Nothing, parsed)

\* fVerifyOptional: the options in the key order of the map, from option k on
RECURSIVE fVerifyOptional(_, _, _, _)
fVerifyOptional(valid, topMost, parsed, k) ==
    LET checked == VerifyOption(valid, topMost, parsed, valid.options[k])
    IN  IF k > Len(valid.options) THEN Checked(Nothing, parsed)
        ELSE IF HasValue(checked.error) THEN checked
        ELSE fVerifyOptional(valid, topMost, checked.value, k + 1)

\* a constraint callback is modelled by the message it returns (empty: passed)
Checker(name, message) == [name |-> name, message |-> message]

\* the nodes from the root down to args (fRecCheckConstraints walks up first)
RECURSIVE PathTo(_, _)
PathTo(nodes, args) == IF args = 0 THEN <<>> ELSE Append(PathTo(nodes, nodes[args].super), args)

\* the callbacks parse() runs, in its order, were none of them to fail
ConstraintOrder(valid, topMost, selected, parsed) ==
    LET path == PathTo(valid.nodes, topMost)
        endpoint == valid.nodes[topMost].endpoints[selected]
        triggered == SelectSeq(valid.options, LAMBDA o : Supplied(parsed, o))
    IN  Concat([i \in 1..Len(path) |-> valid.nodes[path[i]].constraints])
        \o (IF selected # 0 /\ HasValue(endpoint.constraints) THEN ValueOf(endpoint.constraints) ELSE <<>>)
        \o Concat([i \in 1..Len(triggered) |-> triggered[i].option.constraints])

\* a variant that runs every callback, whatever the earlier ones returned
ExecutedAll(checkers) == checkers

\* fCheckConstraints over the callbacks: those executed, up to the first that fails
RECURSIVE Executed(_)
Executed(checkers) ==
    IF Len(checkers) = 0 THEN <<>>
    ELSE IF Len(Head(checkers).message) > 0 THEN <<Head(checkers)>>
    ELSE <<Head(checkers)>> \o Executed(Tail(checkers))

(***************************************************************************)
(* The run of Parse(args, config): the state after construction and one    *)
(* action per stage of parse().                                            *)
(***************************************************************************)
NoMessage == Message("", <<>>)
Outcome(kind, message, help, version) ==
    [kind |-> kind, message |-> message, help |-> help, version |-> version]

\* the members of detail::Parser as its constructor leaves them
Start(cfg, args) ==
    /\ config = cfg
    /\ pArgs = args
    /\ pc = "validate"
    /\ pConfig = <<>>
    /\ pTopMost = 1
    /\ pParsed = EmptyParsed
    /\ pDeferred = Nothing
    /\ pIndex = 0
    /\ pPrintHelp = "none"
    /\ pPrintVersion = FALSE
    /\ pPositionalLocked = FALSE
    /\ chosen = 0
    /\ outcome = Outcome("none", NoMessage, "none", FALSE)
    /\ trace = <<>>

\* an exception leaves parse(): the parser and what it collected are gone
Throw(kind, message) ==
    /\ pc' = "done"
    /\ outcome' = Outcome(kind, message, "none", FALSE)

\* detail::ValidateConfig and the extraction of the program name
Validate ==
    /\ pc = "validate"
    /\ \E order \in EndpointOrders(config) :
          IF Len(ConfigErrors(config, order)) > 0
          THEN /\ Throw("ConfigError", Message(Head(ConfigErrors(config, order)), <<>>))
               /\ UNCHANGED <<pConfig, pIndex, trace>>
          ELSE /\ pConfig' = ValidConfig(config, order)
               /\ IF Len(pArgs) = 0 \/ Len(config.program) = 0
                  THEN UNCHANGED <<pIndex, trace>>
                  ELSE /\ pIndex' = 1
                       /\ trace' = Append(trace, Event("program", 1, 0, pArgs[1]))
               /\ pc' = "scan"
               /\ UNCHANGED outcome
    /\ UNCHANGED <<config, pArgs, pTopMost, pParsed, pDeferred, pPrintHelp, pPrintVersion,
                   pPositionalLocked, chosen>>

\* a variant that goes through an iteration of the loop without taking the token
ScanTokenStuck ==
    /\ pc = "scan"
    /\ pIndex < Len(pArgs)
    /\ LET st == ScanStep([pTopMost |-> pTopMost, pParsed |-> pParsed, pDeferred |-> pDeferred,
                           pIndex |-> pIndex, pPrintHelp |-> pPrintHelp,
                           pPrintVersion |-> pPrintVersion,
                           pPositionalLocked |-> pPositionalLocked,
                           payloadUsed |-> FALSE, trace |-> trace], pConfig, pArgs)
       IN  /\ pTopMost' = st.pTopMost
           /\ pParsed' = st.pParsed
           /\ pDeferred' = st.pDeferred
           /\ pIndex' = IF Len(st.pParsed.pPositional) > 1 THEN pIndex ELSE st.pIndex
           /\ pPrintHelp' = st.pPrintHelp
           /\ pPrintVersion' = st.pPrintVersion
           /\ pPositionalLocked' = st.pPositionalLocked
           /\ trace' = IF Len(st.pParsed.pPositional) > 1 THEN trace ELSE st.trace
    /\ UNCHANGED <<config, pArgs, pc, pConfig, chosen, outcome>>

\* one iteration of the loop over the arguments
ScanToken ==
    /\ pc = "scan"
    /\ pIndex < Len(pArgs)
    /\ LET st == ScanStep([pTopMost |-> pTopMost, pParsed |-> pParsed, pDeferred |-> pDeferred,
                           pIndex |-> pIndex, pPrintHelp |-> pPrintHelp,
                           pPrintVersion |-> pPrintVersion,
                           pPositionalLocked |-> pPositionalLocked,
                           payloadUsed |-> FALSE, trace |-> trace], pConfig, pArgs)
       IN  /\ pTopMost' = st.pTopMost
           /\ pParsed' = st.pParsed
           /\ pDeferred' = st.pDeferred
           /\ pIndex' = st.pIndex
           /\ pPrintHelp' = st.pPrintHelp
           /\ pPrintVersion' = st.pPrintVersion
           /\ pPositionalLocked' = st.pPositionalLocked
           /\ trace' = st.trace
    /\ UNCHANGED <<config, pArgs, pc, pConfig, chosen, outcome>>

\* a variant that raises the deferred error before it looks at the print request
EndScanDeferredFirst ==
    /\ pc = "scan"
    /\ pIndex >= Len(pArgs)
    /\ IF HasValue(pDeferred)
       THEN Throw("ParseError", ValueOf(pDeferred))
       ELSE IF pPrintVersion \/ pPrintHelp # "none"
       THEN /\ pc' = "done"
            /\ outcome' = Outcome("PrintRequested", NoMessage,
                                  IF pPrintHelp = "none" THEN "none"
                                  ELSE IF /\ pPrintHelp = "reduced"
                                          /\ HasValue(pConfig.help)
                                          /\ ValueOf(pConfig.help).reducible
                                  THEN "reduced" ELSE "full",
                                  pPrintVersion)
       ELSE /\ pc' = "positional"
            /\ UNCHANGED outcome
    /\ UNCHANGED <<config, pArgs, pConfig, pTopMost, pParsed, pDeferred, pIndex, pPrintHelp,
                   pPrintVersion, pPositionalLocked, chosen, trace>>

\* the end of the loop: the requested print, then the deferred error
\* a variant that renders the reduced help of an entry that is not reducible
EndScanReduced ==
    /\ pc = "scan"
    /\ pIndex >= Len(pArgs)
    /\ IF pPrintVersion \/ pPrintHelp # "none"
       THEN /\ pc' = "done"
            /\ outcome' = Outcome("PrintRequested", NoMessage,
                                  IF pPrintHelp = "none" THEN "none"
                                  ELSE IF pPrintHelp = "reduced" /\ HasValue(pConfig.help)
                                  THEN "reduced" ELSE "full",
                                  pPrintVersion)
       ELSE IF HasValue(pDeferred)
       THEN Throw("ParseError", ValueOf(pDeferred))
       ELSE /\ pc' = "positional"
            /\ UNCHANGED outcome
    /\ UNCHANGED <<config, pArgs, pConfig, pTopMost, pParsed, pDeferred, pIndex, pPrintHelp,
                   pPrintVersion, pPositionalLocked, chosen, trace>>

EndScan ==
    /\ pc = "scan"
    /\ pIndex >= Len(pArgs)
    /\ IF pPrintVersion \/ pPrintHelp # "none"
       THEN /\ pc' = "done"
            /\ outcome' = Outcome("PrintRequested", NoMessage,
                                  IF pPrintHelp = "none" THEN "none"
                                  ELSE IF /\ pPrintHelp = "reduced"
                                          /\ HasValue(pConfig.help)
                                          /\ ValueOf(pConfig.help).reducible
                                  THEN "reduced" ELSE "full",
                                  pPrintVersion)
       ELSE IF HasValue(pDeferred)
       THEN Throw("ParseError", ValueOf(pDeferred))
       ELSE /\ pc' = "positional"
            /\ UNCHANGED outcome
    /\ UNCHANGED <<config, pArgs, pConfig, pTopMost, pParsed, pDeferred, pIndex, pPrintHelp,
                   pPrintVersion, pPositionalLocked, chosen, trace>>

\* a variant that lets a node without endpoints through to the options
VerifyPositionalAnyNode ==
    /\ pc = "positional"
    /\ IF Len(pConfig.nodes[pTopMost].endpoints) = 0
       THEN /\ pc' = "optional"
            /\ UNCHANGED <<pParsed, chosen, outcome>>
       ELSE LET checked == fVerifyPositional(pConfig, pTopMost, pParsed)
            IN  IF HasValue(checked.error)
                THEN /\ Throw("ParseError", ValueOf(checked.error))
                     /\ UNCHANGED <<pParsed, chosen>>
                ELSE /\ pParsed' = checked.value
                     /\ chosen' = checked.endpoint
                     /\ pc' = "optional"
                     /\ UNCHANGED outcome
    /\ UNCHANGED <<config, pArgs, pConfig, pTopMost, pDeferred, pIndex, pPrintHelp,
                   pPrintVersion, pPositionalLocked, trace>>

VerifyPositional ==
    /\ pc = "positional"
    /\ LET checked == fVerifyPositional(pConfig, pTopMost, pParsed)
       IN  IF HasValue(checked.error)
           THEN /\ Throw("ParseError", ValueOf(checked.error))
                /\ UNCHANGED <<pParsed, chosen>>
           ELSE /\ pParsed' = checked.value
                /\ chosen' = checked.endpoint
                /\ pc' = "optional"
                /\ UNCHANGED outcome
    /\ UNCHANGED <<config, pArgs, pConfig, pTopMost, pDeferred, pIndex, pPrintHelp,
                   pPrintVersion, pPositionalLocked, trace>>

VerifyOptional ==
    /\ pc = "optional"
    /\ LET checked == fVerifyOptional(pConfig, pTopMost, pParsed, 1)
       IN  IF HasValue(checked.error)
           THEN /\ Throw("ParseError", ValueOf(checked.error))
                /\ UNCHANGED pParsed
           ELSE /\ pParsed' = checked.value
                /\ pc' = "constraints"
                /\ UNCHANGED outcome
    /\ UNCHANGED <<config, pArgs, pConfig, pTopMost, pDeferred, pIndex, pPrintHelp,
                   pPrintVersion, pPositionalLocked, chosen, trace>>

\* the constraint callbacks and the return of the parsed structure
CheckConstraints ==
    /\ pc = "constraints"
    /\ LET executed == Executed(ConstraintOrder(pConfig, pTopMost, chosen, pParsed))
           failed == Len(executed) > 0 /\ Len(executed[Len(executed)].message) > 0
       IN  /\ trace' = trace \o [i \in 1..Len(executed) |-> Event("constraint", 0, 0, executed[i].name)]
           /\ IF failed
              THEN Throw("ParseError", Message("Constraint", executed[Len(executed)].message))
              ELSE /\ pc' = "done"
                   /\ outcome' = Outcome("Parsed", NoMessage, "none", FALSE)
    /\ UNCHANGED <<config, pArgs, pConfig, pTopMost, pParsed, pDeferred, pIndex, pPrintHelp,
                   pPrintVersion, pPositionalLocked, chosen>>

Next == Validate \/ ScanToken \/ EndScan \/ VerifyPositional \/ VerifyOptional \/ CheckConstraints

\* a variant in which the second parser starts with the lock of the first
ParseAgainLocked ==
    /\ pc = "done"
    /\ \A k \in 1..Len(trace) : trace[k].ev # "first"
    /\ pc' = "validate"
    /\ pConfig' = <<>>
    /\ pTopMost' = 1
    /\ pParsed' = EmptyParsed
    /\ pDeferred' = Nothing
    /\ pIndex' = 0
    /\ pPrintHelp' = "none"
    /\ pPrintVersion' = FALSE
    /\ chosen' = 0
    /\ outcome' = Outcome("none", NoMessage, "none", FALSE)
    /\ trace' = << Event("first", 0, 0, [outcome |-> outcome, pParsed |-> pParsed,
                                         pConfig |-> pConfig, trace |-> trace]) >>
    /\ UNCHANGED <<config, pArgs, pPositionalLocked>>

\* a second call of Parse with the same arguments and configuration: a new
\* parser as its constructor leaves it; the history keeps what the first
\* call ended with
ParseAgain ==
    /\ pc = "done"
    /\ \A k \in 1..Len(trace) : trace[k].ev # "first"
    /\ pc' = "validate"
    /\ pConfig' = <<>>
    /\ pTopMost' = 1
    /\ pParsed' = EmptyParsed
    /\ pDeferred' = Nothing
    /\ pIndex' = 0
    /\ pPrintHelp' = "none"
    /\ pPrintVersion' = FALSE
    /\ pPositionalLocked' = FALSE
    /\ chosen' = 0
    /\ outcome' = Outcome("none", NoMessage, "none", FALSE)
    /\ trace' = << Event("first", 0, 0, [outcome |-> outcome, pParsed |-> pParsed,
                                         pConfig |-> pConfig, trace |-> trace]) >>
    /\ UNCHANGED <<config, pArgs>>

\* a second call of Parse with the same arguments and the same configuration
\* but for the visibility: every option, group and endpoint is visible
ParseVisible ==
    /\ pc = "done"
    /\ \A k \in 1..Len(trace) : trace[k].ev # "first"
    /\ config' = [config EXCEPT !.nodes =
                     [n \in 1..Len(config.nodes) |->
                         [config.nodes[n] EXCEPT
                             !.hidden = FALSE,
                             !.options = [k \in 1..Len(config.nodes[n].options) |->
                                             [config.nodes[n].options[k] EXCEPT !.hidden = FALSE]],
                             !.endpoints = [k \in 1..Len(config.nodes[n].endpoints) |->
                                               [config.nodes[n].endpoints[k] EXCEPT !.hidden = FALSE]]]]]
    /\ pc' = "validate"
    /\ pConfig' = <<>>
    /\ pTopMost' = 1
    /\ pParsed' = EmptyParsed
    /\ pDeferred' = Nothing
    /\ pIndex' = 0
    /\ pPrintHelp' = "none"
    /\ pPrintVersion' = FALSE
    /\ pPositionalLocked' = FALSE
    /\ chosen' = 0
    /\ outcome' = Outcome("none", NoMessage, "none", FALSE)
    /\ trace' = << Event("first", 0, 0, [outcome |-> outcome, pParsed |-> pParsed,
                                         pConfig |-> pConfig, trace |-> trace]) >>
    /\ UNCHANGED pArgs

\* the caller reads one value of the result with one of the accessors
Access ==
    /\ pc = "done" /\ outcome.kind = "Parsed"
    /\ \A k \in 1..Len(trace) : trace[k].ev # "access"
    /\ \E accessor \in { "unum", "inum", "real", "boolean", "str" },
          value \in Range(pParsed.pPositional)
                    \cup UNION { Range(pParsed.pOptions[id].values) : id \in DOMAIN pParsed.pOptions } :
          trace' = Append(trace, Event("access", 0, 0,
                                       [accessor |-> accessor, value |-> value,
                                        result |-> Read(accessor, value)]))
    /\ UNCHANGED <<config, pArgs, pc, pConfig, pTopMost, pParsed, pDeferred, pIndex, pPrintHelp,
                   pPrintVersion, pPositionalLocked, chosen, outcome>>

(***************************************************************************)
(* The configurations and token lists the runs are drawn from.             *)
(***************************************************************************)
AnyType == Primitive("any")
BooleanType == Primitive("boolean")
Flag(name, id, abbreviation) ==
    Option(name, id, abbreviation, FALSE, AnyType, <<>>, NoRequire, {}, <<>>)
Payload(name, id, abbreviation, type, require) ==
    Option(name, id, abbreviation, TRUE, type, <<>>, require, {}, <<>>)
Root(options, positionals, require, endpoints) ==
    Arguments(0, <<>>, 0, NoChar, {}, options, positionals, require, endpoints, <<>>)
Group(parent, name, id, abbreviation, options, positionals, require) ==
    Arguments(parent, name, id, abbreviation, {}, options, positionals, require, <<>>, <<>>)

\* the token lists of a program: nothing at all, or the program path and up to
\* MaxArgs - 1 tokens of the pool
ProgramArgs(pool) == { <<>> } \cup { <<<<"p">>>> \o t : t \in SeqsUpTo(pool, MaxArgs - 1) }

\* a program with a help and a version entry, a flag and two options at the
\* root, and one group that takes exactly one boolean
ScanConfig ==
    Config(<<"p">>, <<"1">>,
           SpecialEntry(<<"h", "e">>, "h", TRUE), SpecialEntry(<<"v", "e">>, "v", FALSE),
           << Root(<< Flag(<<"f", "l">>, 1, "f"),
                      Payload(<<"n", "a">>, 2, "n", AnyType, Require(Some(0), Some(2))),
                      Payload(<<"n", "b">>, 3, "b", AnyType, NoRequire) >>,
                   <<>>, NoRequire, <<>>),
              Group(1, <<"g", "a">>, 7, "g", <<>>,
                    << Positional(<<"p", "s">>, BooleanType, Nothing) >>, NoRequire) >>)

ScanTokens ==
    { <<"-", "h">>, <<"-", "-", "h", "e">>, <<"-", "-", "v", "e">>, <<"-", "z", "v">>,
      <<"-", "-">>, <<"-", "-", "z", "z">>, <<"-", "-", "f", "l", "=", "1">>,
      <<"g", "a">>, <<"1">>, <<"-", "-", "n", "a">> }

InitScan == \E args \in ProgramArgs(ScanTokens) : Start(ScanConfig, args)
SpecScan == InitScan /\ [][Next]_vars

\* a program whose root takes any number of strings, with a flag, an option
\* that takes any number of strings and an option that takes up to two booleans
PayloadConfig ==
    Config(<<"p">>, <<"1">>, NoSpecialEntry, NoSpecialEntry,
           << Root(<< Flag(<<"f", "l">>, 1, "f"),
                      Payload(<<"n", "a">>, 2, "n", AnyType, Require(Some(0), Some(0))),
                      Payload(<<"n", "b">>, 3, "b", BooleanType, Require(Some(0), Some(2))) >>,
                   << Positional(<<"p", "s">>, AnyType, Nothing) >>,
                   Require(Some(0), Some(0)), <<>>) >>)

PayloadTokens ==
    { <<"-", "n", "b">>, <<"-", "f", "n">>, <<"-", "n", "f", "=", "1">>, <<"-", "n", "b", "=", "0">>,
      <<"-", "-", "n", "b", "=", "0">>, <<"-", "-", "n", "a">>, <<"1">>, <<"-", "b">> }

InitPayload == \E args \in ProgramArgs(PayloadTokens) : Start(PayloadConfig, args)
SpecPayload == InitPayload /\ [][Next]_vars

\* every requirement with limits up to MaxRequire: none, a minimum, or both
Requires ==
    { NoRequire } \cup
    { Require(Some(a), b) : a \in 0..MaxRequire,
                            b \in { Nothing } \cup { Some(m) : m \in 0..MaxRequire } }

\* a program whose root takes no positionals and owns one boolean option
LimitConfigs ==
    { Config(<<"p">>, <<"1">>, NoSpecialEntry, NoSpecialEntry,
             << Root(<< Payload(<<"n", "a">>, 2, "n", BooleanType, r) >>, <<>>, NoRequire, <<>>) >>) :
        r \in Requires }

LimitTokens ==
    { <<"-", "-", "n", "a", "=", "1">>, <<"-", "-", "n", "a", "=", "0">>, <<"-", "-", "n", "a", "=", "x">>,
      <<"-", "n">>, <<"1">> }

InitLimit == \E cfg \in LimitConfigs, args \in ProgramArgs(LimitTokens) : Start(cfg, args)
SpecLimit == InitLimit /\ [][Next]_vars

\* a program whose root declares two explicit endpoints, each with fewer than
\* MaxPositionals strings (with or without a default) and any requirement
PairPositionals ==
    SeqsUpTo({ Positional(<<"p", "s">>, AnyType, Nothing),
               Positional(<<"p", "d">>, AnyType, Some(StrValue(<<"d">>))) }, MaxPositionals - 1)
PairConfigs ==
    { Config(<<"p">>, <<"1">>, NoSpecialEntry, NoSpecialEntry,
             << Root(<<>>, <<>>, NoRequire,
                     << Endpoint(1, p1, r1, <<>>), Endpoint(2, p2, r2, <<>>) >>) >>) :
        p1 \in PairPositionals, p2 \in PairPositionals, r1 \in Requires, r2 \in Requires }

InitPair == \E cfg \in PairConfigs, args \in ProgramArgs({ <<"x">> }) : Start(cfg, args)
SpecPair == InitPair /\ [][Next]_vars

\* a program whose root is one implicit endpoint of up to MaxPositionals
\* positionals (a boolean, a string, a string with a default) and any requirement
SinglePositionals ==
    SeqsUpTo({ Positional(<<"p", "b">>, BooleanType, Nothing),
               Positional(<<"p", "a">>, AnyType, Nothing),
               Positional(<<"p", "d">>, AnyType, Some(StrValue(<<"d">>))) }, MaxPositionals)
SingleConfigs ==
    { Config(<<"p">>, <<"1">>, NoSpecialEntry, NoSpecialEntry, << Root(<<>>, p, r, <<>>) >>) :
        p \in SinglePositionals, r \in Requires }

InitSingle == \E cfg \in SingleConfigs, args \in ProgramArgs({ <<"1">>, <<"x">> }) : Start(cfg, args)
SpecSingle == InitSingle /\ [][Next]_vars

\* a program with the groups ga (holding gc) and gb, a flag that one of the
\* nodes owns and that is linked with any of the groups, and a string option
\* of the root or of gb, plain, required once, or with a default
LinkedGroup(parent, name, id, linked) ==
    Arguments(parent, name, id, NoChar, IF linked THEN {5} ELSE {}, <<>>, <<>>, NoRequire, <<>>, <<>>)
GroupOptionKinds ==
    { [require |-> NoRequire, defValue |-> <<>>],
      [require |-> Require(Some(1), Nothing), defValue |-> <<>>],
      [require |-> NoRequire, defValue |-> <<StrValue(<<"d">>)>>] }
GroupConfigs ==
    { LET flag == Option(<<"f", "l">>, 1, "f", FALSE, AnyType, <<>>, NoRequire, {5}, <<>>)
          option == Option(<<"a", "b">>, 2, "a", TRUE, AnyType, kind.defValue, kind.require, {}, <<>>)
          owned(n) == (IF optionOwner = n THEN <<option>> ELSE <<>>)
                      \o (IF flagOwner = n THEN <<flag>> ELSE <<>>)
          nodes == << Root(<<>>, <<>>, NoRequire, <<>>),
                      LinkedGroup(1, <<"g", "a">>, 7, 2 \in linked),
                      LinkedGroup(2, <<"g", "c">>, 8, 3 \in linked),
                      LinkedGroup(1, <<"g", "b">>, 9, 4 \in linked) >>
      IN  Config(<<"p">>, <<"1">>, NoSpecialEntry, NoSpecialEntry,
                 [n \in 1..4 |-> [nodes[n] EXCEPT !.options = owned(n)]]) :
        flagOwner \in {1, 2, 4}, optionOwner \in {1, 4},
        linked \in SUBSET {2, 3, 4}, kind \in GroupOptionKinds }

\* the program path, a path into the groups, and option tokens after it
GroupArgs ==
    { a \in { <<<<"p">>>> \o path \o options :
                  path \in { <<>>, << <<"g", "a">> >>, << <<"g", "a">>, <<"g", "c">> >>, << <<"g", "b">> >> },
                  options \in SeqsUpTo({ <<"-", "f">>, <<"-", "-", "a", "b", "=", "1">> }, MaxArgs - 1) } :
          Len(a) <= MaxArgs }

InitGroup == \E cfg \in GroupConfigs, args \in GroupArgs : Start(cfg, args)
SpecGroup == InitGroup /\ [][Next]_vars

\* a program whose root is one implicit endpoint of up to MaxPositionals
\* positionals (a string, a string with a default, an enum with the name of
\* an entry as default) and any requirement
LetterType == Enum(<< EnumEntry(<<"x">>, 4), EnumEntry(<<"y">>, 5) >>)
DefaultPositionals ==
    SeqsUpTo({ Positional(<<"p", "a">>, AnyType, Nothing),
               Positional(<<"p", "d">>, AnyType, Some(StrValue(<<"d">>))),
               Positional(<<"p", "e">>, LetterType, Some(StrValue(<<"y">>))) }, MaxPositionals)
DefaultConfigs ==
    { Config(<<"p">>, <<"1">>, NoSpecialEntry, NoSpecialEntry, << Root(<<>>, p, r, <<>>) >>) :
        p \in DefaultPositionals, r \in Requires }

InitDefault == \E cfg \in DefaultConfigs, args \in ProgramArgs({ <<"x">>, <<"z">> }) : Start(cfg, args)
SpecDefault == InitDefault /\ [][Next]_vars

\* a program whose root, group, explicit endpoint, flag and option each carry
\* one constraint callback that passes or fails; the option takes at most one
\* string and may have a default
CheckedConfig(failing, defValue) ==
    LET check(name) == <<Checker(name, IF name \in failing THEN <<name>> ELSE <<>>)>>
    IN  Config(<<"p">>, <<"1">>, NoSpecialEntry, NoSpecialEntry,
               << Arguments(0, <<>>, 0, NoChar, {},
                            << Option(<<"f", "l">>, 1, "f", FALSE, AnyType, <<>>, NoRequire, {}, check("f")),
                               Option(<<"n", "a">>, 2, "n", TRUE, AnyType, defValue,
                                      Require(Some(0), Some(1)), {}, check("n")) >>,
                            <<>>, NoRequire, <<>>, check("r")),
                  Arguments(1, <<"g", "a">>, 7, "g", {}, <<>>, <<>>, NoRequire,
                            << Endpoint(3, << Positional(<<"p", "s">>, AnyType, Nothing) >>,
                                        NoRequire, check("e")) >>,
                            check("g")) >>)
CheckedConfigs ==
    { CheckedConfig(failing, defValue) :
        failing \in SUBSET { "r", "g", "e", "f", "n" },
        defValue \in { <<>>, <<StrValue(<<"d">>)>> } }

InitChecked ==
    \E cfg \in CheckedConfigs,
       args \in ProgramArgs({ <<"g", "a">>, <<"x">>, <<"-", "f">>, <<"-", "-", "n", "a", "=", "1">> }) :
        Start(cfg, args)
SpecChecked == InitChecked /\ [][Next]_vars

\* the program of the callbacks with a help entry, and with an option whose
\* defaults are none, or two for a maximum of one
OutcomeConfigs ==
    { [CheckedConfig(failing, defValue) EXCEPT !.help = SpecialEntry(<<"h", "e">>, "h", FALSE)] :
        failing \in { {}, {"e"}, {"r", "n"} },
        defValue \in { <<>>, <<StrValue(<<"d">>), StrValue(<<"d">>)>> } }

InitOutcome ==
    \E cfg \in OutcomeConfigs,
       args \in ProgramArgs({ <<"g", "a">>, <<"x">>, <<"-", "-", "n", "a", "=", "1">>,
                              <<"-", "-", "h", "e">>, <<"-", "z">> }) :
        Start(cfg, args)
SpecOutcome == InitOutcome /\ [][Next]_vars

\* the tree of groups with a flag linked by reference id 5 and a second
\* entry, flag or option, with the id of the flag or its own, each owned by
\* any node, and any of the groups linked by reference id 5
OwnerConfigs ==
    { LET flag == Option(<<"f", "l">>, 1, "f", FALSE, AnyType, <<>>, NoRequire, {5}, <<>>)
          second == Option(<<"a", "b">>, id, "a", payload, AnyType, <<>>, NoRequire, {}, <<>>)
          owned(n) == (IF flagOwner = n THEN <<flag>> ELSE <<>>)
                      \o (IF secondOwner = n THEN <<second>> ELSE <<>>)
          nodes == << Root(<<>>, <<>>, NoRequire, <<>>),
                      LinkedGroup(1, <<"g", "a">>, 7, 2 \in linked),
                      LinkedGroup(2, <<"g", "c">>, 8, 3 \in linked),
                      LinkedGroup(1, <<"g", "b">>, 9, 4 \in linked) >>
      IN  Config(<<"p">>, <<"1">>, NoSpecialEntry, NoSpecialEntry,
                 [n \in 1..4 |-> [nodes[n] EXCEPT !.options = owned(n)]]) :
        flagOwner \in 1..4, secondOwner \in 1..4, id \in {1, 2}, payload \in BOOLEAN,
        linked \in SUBSET {2, 3, 4} }

InitOwner ==
    \E cfg \in OwnerConfigs,
       args \in { <<<<"p">>>>, <<<<"p">>, <<"g", "b">>>>, <<<<"p">>, <<"g", "a">>, <<"g", "c">>, <<"-", "f">>>> } :
        Start(cfg, args)
SpecOwner == InitOwner /\ [][Next]_vars

\* a program or a menu with a help and a version entry and a flag at the
\* root, the group ga that holds the leaf gc, and the leaf gb; the leaves take
\* any number of strings
InitMenu ==
    \E program \in { <<>>, <<"p">> },
       tokens \in SeqsUpTo({ <<"-", "-">>, <<"h", "e">>, <<"-", "-", "h", "e">>, <<"g", "a">>,
                             <<"g", "c">>, <<"g", "b">>, <<"x">> }, MaxArgs - 1) :
        Start(Config(program, <<"1">>,
                     SpecialEntry(<<"h", "e">>, "h", TRUE), SpecialEntry(<<"v", "e">>, "v", FALSE),
                     << Root(<< Flag(<<"f", "l">>, 1, "f") >>, <<>>, NoRequire, <<>>),
                        Group(1, <<"g", "a">>, 7, "g", <<>>, <<>>, NoRequire),
                        Group(2, <<"g", "c">>, 8, NoChar, <<>>,
                              << Positional(<<"p", "s">>, AnyType, Nothing) >>, Require(Some(0), Some(0))),
                        Group(1, <<"g", "b">>, 9, NoChar, <<>>,
                              << Positional(<<"p", "s">>, AnyType, Nothing) >>, Require(Some(0), Some(0))) >>),
              (IF Len(program) = 0 THEN <<>> ELSE <<program>>) \o tokens)
SpecMenu == InitMenu /\ [][Next]_vars

\* a program with two flags and a string option whose root takes any number
\* of strings
InitFlag ==
    \E args \in ProgramArgs({ <<"-", "f">>, <<"-", "-", "f", "m">>, <<"-", "m", "f">>,
                              <<"-", "f", "n">>, <<"x">> }) :
        Start(Config(<<"p">>, <<"1">>, NoSpecialEntry, NoSpecialEntry,
                     << Root(<< Flag(<<"f", "l">>, 1, "f"), Flag(<<"f", "m">>, 2, "m"),
                                Payload(<<"n", "a">>, 3, "n", AnyType, Require(Some(0), Some(0))) >>,
                             << Positional(<<"p", "s">>, AnyType, Nothing) >>,
                             Require(Some(0), Some(0)), <<>>) >>),
              args)
SpecFlag == InitFlag /\ [][Next]_vars

\* a program whose root takes no positionals and owns a string option with
\* one or two defaults and an enum option with two; both can be given any
\* number of times
InitFill ==
    \E defValue \in { <<StrValue(<<"d">>)>>, <<StrValue(<<"d">>), StrValue(<<"e">>)>> },
       args \in ProgramArgs({ <<"-", "-", "n", "a", "=", "1">>, <<"-", "n">>, <<"-", "n", "n", "=", "2">>,
                              <<"-", "-", "n", "e", "=", "x">>, <<"-", "e">>, <<"y">> }) :
        Start(Config(<<"p">>, <<"1">>, NoSpecialEntry, NoSpecialEntry,
                     << Root(<< Option(<<"n", "a">>, 2, "n", TRUE, AnyType, defValue,
                                       Require(Some(0), Some(0)), {}, <<>>),
                                Option(<<"n", "e">>, 3, "e", TRUE, LetterType,
                                       <<StrValue(<<"y">>), StrValue(<<"x">>)>>,
                                       Require(Some(0), Some(0)), {}, <<>>) >>,
                             <<>>, NoRequire, <<>>) >>),
              args)
SpecFill == InitFill /\ [][Next]_vars

\* two calls of Parse, one after the other, for the programs of the
\* outcomes and for a program with two endpoints of the same effective
\* minimum, the first without a maximum
InitTwice ==
    \E cfg \in OutcomeConfigs \cup
               { Config(<<"p">>, <<"1">>, NoSpecialEntry, NoSpecialEntry,
                        << Root(<<>>, <<>>, NoRequire,
                                << Endpoint(1, << Positional(<<"p", "s">>, AnyType, Nothing) >>,
                                            Require(Some(1), Some(0)), <<>>),
                                   Endpoint(2, << Positional(<<"p", "t">>, AnyType, Nothing) >>,
                                            NoRequire, <<>>) >>) >>) },
       args \in ProgramArgs({ <<"g", "a">>, <<"x">>, <<"-", "-", "n", "a", "=", "1">>,
                              <<"-", "-", "h", "e">>, <<"-", "-">> }) :
        Start(cfg, args)
SpecTwice == InitTwice /\ [][Next \/ ParseAgain]_vars

\* a program with the group ga that holds the leaf gc and a further leaf of
\* either node under one of three names and abbreviations; the flag fl and a
\* second flag under one of two names and three abbreviations are declared
\* at any nodes
InitNames ==
    \E flagOwner \in 1..4, secondOwner \in 1..4,
       second \in { <<"f", "l">>, <<"f", "m">> }, short \in { "f", "m", NoChar },
       parent \in 1..2, name \in { <<"g", "a">>, <<"g", "c">>, <<"g", "b">> },
       abbreviation \in { "g", "c", NoChar },
       args \in { <<<<"p">>>>, <<<<"p">>, <<"g", "a">>, <<"g", "c">>, <<"-", "f">>>>,
                  <<<<"p">>, <<"g", "c">>, <<"-", "-", "f", "m">>>>, <<<<"p">>, <<"c">>, <<"-", "m">>>> } :
        LET owned(n) == (IF flagOwner = n THEN << Flag(<<"f", "l">>, 1, "f") >> ELSE <<>>)
                        \o (IF secondOwner = n THEN << Flag(second, 2, short) >> ELSE <<>>)
        IN  Start(Config(<<"p">>, <<"1">>, NoSpecialEntry, NoSpecialEntry,
                         << Root(owned(1), <<>>, NoRequire, <<>>),
                            Group(1, <<"g", "a">>, 7, "g", owned(2), <<>>, NoRequire),
                            Group(2, <<"g", "c">>, 8, "c", owned(3), <<>>, NoRequire),
                            Group(parent, name, 9, abbreviation, owned(4), <<>>, NoRequire) >>),
                  args)
SpecNames == InitNames /\ [][Next]_vars

\* the program of the constraints with a reducible help entry, where any of
\* the flag, the option, the group and its endpoint are hidden, parsed as it
\* is and then with everything visible
InitHidden ==
    \E hidden \in SUBSET { "fl", "na", "ga", "e" },
       args \in ProgramArgs({ <<"g", "a">>, <<"x">>, <<"-", "f">>, <<"-", "-", "n", "a", "=", "1">>,
                              <<"-", "h">> }) :
        Start([CheckedConfig({}, <<>>) EXCEPT
                   !.help = SpecialEntry(<<"h", "e">>, "h", TRUE),
                   !.nodes[1].options[1].hidden = "fl" \in hidden,
                   !.nodes[1].options[2].hidden = "na" \in hidden,
                   !.nodes[2].hidden = "ga" \in hidden,
                   !.nodes[2].endpoints[1].hidden = "e" \in hidden],
              args)
SpecHidden == InitHidden /\ [][Next \/ ParseVisible]_vars

\* a program that takes a boolean and then strings, with an enum option and
\* an option of any type whose default is an unsigned number, a negative
\* number or a real; the caller reads a value of the result
InitAccess ==
    \E default \in { [t |-> "unum", s |-> <<>>, n |-> 5], [t |-> "inum", s |-> <<>>, n |-> -3],
                     [t |-> "real", s |-> <<>>, n |-> 2] },
       args \in ProgramArgs({ <<"1">>, <<"x">>, <<"-", "-", "n", "e", "=", "x">> }) :
        Start(Config(<<"p">>, <<"1">>, NoSpecialEntry, NoSpecialEntry,
                     << Root(<< Option(<<"n", "a">>, 2, "n", TRUE, AnyType, <<default>>,
                                       NoRequire, {}, <<>>),
                                Payload(<<"n", "e">>, 3, "e", LetterType, NoRequire) >>,
                             << Positional(<<"p", "b">>, BooleanType, Nothing),
                                Positional(<<"p", "s">>, AnyType, Nothing) >>,
                             Require(Some(0), Some(0)), <<>>) >>),
              args)
SpecAccess == InitAccess /\ [][Next \/ Access]_vars

\* the programs of the payloads and of the outcomes over token lists with
\* payloads, groups, print requests and unknown options, executed as by a
\* program that keeps running
InitRun ==
    \E cfg \in OutcomeConfigs \cup { PayloadConfig },
       args \in { <<>>, <<<<"p">>>>,
                  <<<<"p">>, <<"-", "-", "n", "a">>, <<"1">>, <<"x">>>>,
                  <<<<"p">>, <<"g", "a">>, <<"x">>, <<"-", "-", "n", "a", "=", "1">>>>,
                  <<<<"p">>, <<"g", "a">>, <<"x">>, <<"-", "-", "h", "e">>>>,
                  <<<<"p">>, <<"g", "a">>, <<"-", "z">>, <<"x">>>>,
                  <<<<"p">>, <<"-", "f", "n">>, <<"1">>, <<"-", "b">>>>,
                  <<<<"p">>, <<"x">>, <<"-", "-", "n", "a">>>>,
                  <<<<"p">>, <<"-", "-">>, <<"-", "-", "n", "a">>, <<"g", "a">>>> } :
        Start(cfg, args)
SpecRunFair == InitRun /\ [][Next]_vars /\ WF_vars(Next)

\* a program or a menu with a help entry, reducible or not, a flag at the
\* root and the group ga that takes any number of strings; the tokens name
\* the help entry in both modes by its name and by its abbreviation
InitHelp ==
    \E program \in { <<>>, <<"p">> }, reducible \in BOOLEAN,
       tokens \in SeqsUpTo({ <<"-", "h">>, <<"-", "-", "h", "e">>, <<"-", "f", "h">>, <<"h">>,
                             <<"h", "e">>, <<"g", "a">>, <<"x">> }, MaxArgs - 1) :
        Start(Config(program, <<"1">>, SpecialEntry(<<"h", "e">>, "h", reducible), NoSpecialEntry,
                     << Root(<< Flag(<<"f", "l">>, 1, "f") >>, <<>>, NoRequire, <<>>),
                        Group(1, <<"g", "a">>, 7, "g", <<>>,
                              << Positional(<<"p", "s">>, AnyType, Nothing) >>, Require(Some(0), Some(0))) >>),
              (IF Len(program) = 0 THEN <<>> ELSE <<program>>) \o tokens)
SpecHelp == InitHelp /\ [][Next]_vars

\* a program whose root declares any of a positional, an explicit endpoint
\* (with or without a positional), a minimum and the group ga, which
\* declares any of a positional and an explicit endpoint
InitShape ==
    \E positionals \in { <<>>, << Positional(<<"p", "s">>, AnyType, Nothing) >> },
       endpoints \in { <<>>, << Endpoint(1, <<>>, NoRequire, <<>>) >>,
                       << Endpoint(1, << Positional(<<"p", "s">>, AnyType, Nothing) >>, NoRequire, <<>>) >> },
       require \in { NoRequire, Require(Some(1), Nothing) },
       groups \in { <<>> } \cup
                  { << Arguments(1, <<"g", "a">>, 7, "g", {}, <<>>, sub, NoRequire, explicit, <<>>) >> :
                      sub \in { <<>>, << Positional(<<"p", "t">>, AnyType, Nothing) >> },
                      explicit \in { <<>>, << Endpoint(2, << Positional(<<"p", "u">>, AnyType, Nothing) >>,
                                                       NoRequire, <<>>) >> } },
       args \in ProgramArgs({ <<"g", "a">>, <<"x">> }) :
        Start(Config(<<"p">>, <<"1">>, NoSpecialEntry, NoSpecialEntry,
                     << Root(<<>>, positionals, require, endpoints) >> \o groups),
              args)
SpecShape == InitShape /\ [][Next]_vars

\* a program or a menu with a reducible help entry, a version entry, a flag
\* at the root and the group ga that takes any number of strings; the tokens
\* name both entries bare and as options
InitTrigger ==
    \E program \in { <<>>, <<"p">> },
       tokens \in SeqsUpTo({ <<"h">>, <<"h", "e">>, <<"-", "h">>, <<"-", "-", "h", "e">>, <<"v">>,
                             <<"-", "-", "v", "e">>, <<"g", "a">>, <<"x">> }, MaxArgs - 1) :
        Start(Config(program, <<"1">>,
                     SpecialEntry(<<"h", "e">>, "h", TRUE), SpecialEntry(<<"v", "e">>, "v", FALSE),
                     << Root(<< Flag(<<"f", "l">>, 1, "f") >>, <<>>, NoRequire, <<>>),
                        Group(1, <<"g", "a">>, 7, "g", <<>>,
                              << Positional(<<"p", "s">>, AnyType, Nothing) >>, Require(Some(0), Some(0))) >>),
              (IF Len(program) = 0 THEN <<>> ELSE <<program>>) \o tokens)
SpecTrigger == InitTrigger /\ [][Next]_vars

\* a program without groups, or with the leaves ga (linked by reference id 5)
\* and gb, whose root owns a flag and a string option, each with no link or
\* a reference id; without groups the root takes any number of strings
InitRoot ==
    \E grouped \in BOOLEAN, flagLinks \in { {}, {5} }, optionLinks \in { {}, {5}, {6} },
       args \in ProgramArgs({ <<"-", "f">>, <<"-", "-", "a", "b", "=", "1">>, <<"x">>,
                              <<"g", "a">>, <<"g", "b">> }) :
        Start(Config(<<"p">>, <<"1">>, NoSpecialEntry, NoSpecialEntry,
                     << Root(<< Option(<<"f", "l">>, 1, "f", FALSE, AnyType, <<>>, NoRequire, flagLinks, <<>>),
                                Option(<<"a", "b">>, 2, "a", TRUE, AnyType, <<>>, NoRequire, optionLinks, <<>>) >>,
                             IF grouped THEN <<>> ELSE << Positional(<<"p", "s">>, AnyType, Nothing) >>,
                             IF grouped THEN NoRequire ELSE Require(Some(0), Some(0)), <<>>) >>
                     \o (IF grouped
                         THEN << LinkedGroup(1, <<"g", "a">>, 7, TRUE), LinkedGroup(1, <<"g", "b">>, 9, FALSE) >>
                         ELSE <<>>)),
              args)
SpecRoot == InitRoot /\ [][Next]_vars

(***************************************************************************)
(* What the claims speak about, read off the inputs and the history.       *)
(***************************************************************************)
Finished == pc = "done"
Validated == pc # "validate" /\ outcome.kind # "ConfigError"
ProgramMode == Len(config.program) > 0
Events(ev) == SelectSeq(trace, LAMBDA e : e.ev = ev)
Triggered == pPrintHelp # "none" \/ pPrintVersion

\* the part of an option token between its hyphens and its '=' (if any)
TokenBody(token) ==
    LET hyphens == IF Len(token) > 2 /\ token[2] = "-" THEN 2 ELSE 1
        stop == IF \E i \in 2..Len(token) : token[i] = "="
                THEN (CHOOSE i \in 2..Len(token) : token[i] = "=" /\ \A j \in 2..(i - 1) : token[j] # "=") - 1
                ELSE Len(token)
    IN  SubSeq(token, hyphens + 1, stop)
IsLongToken(token) == Len(token) > 2 /\ token[2] = "-"
HasInline(token) == \E i \in 2..Len(token) : token[i] = "="

\* an option token that names a special entry: --<name>, or its abbreviation in a run
NamesSpecial(entry, token) ==
    /\ Len(entry.name) > 0
    /\ IF IsLongToken(token) THEN TokenBody(token) = entry.name
       ELSE \E i \in 1..Len(TokenBody(token)) : TokenBody(token)[i] = entry.abbreviation

(***************************************************************************)
(* C1: in program mode, once an option token of the scan names the help or *)
(* the version entry (long name, or abbreviation in a run; a token that    *)
(* was locked to a positional or consumed as a payload is no option        *)
(* token), Parse ends with PrintRequested, whatever error was recorded.    *)
(***************************************************************************)
C1_SpecialTokenScanned ==
    \E i \in 1..Len(trace) :
        /\ trace[i].ev = "option"
        /\ NamesSpecial(config.help, trace[i].str) \/ NamesSpecial(config.versionEntry, trace[i].str)

C1_PrintWins ==
    (Finished /\ Validated /\ ProgramMode /\ C1_SpecialTokenScanned)
        => outcome.kind = "PrintRequested"

\* reached: help printed although an error was recorded before and after the token
C1_Witness ==
    /\ Finished /\ ProgramMode /\ C1_SpecialTokenScanned
    /\ outcome.kind = "PrintRequested"
    /\ \E i, j, k \in 1..Len(trace) :
          /\ i < j /\ j < k
          /\ trace[i].ev = "error" /\ trace[k].ev = "error"
          /\ trace[j].ev = "option" /\ NamesSpecial(config.help, trace[j].str)

(***************************************************************************)
(* C4: the scan keeps the first scan-time error only; without help/version *)
(* it is the ParseError of the run, raised when all tokens are scanned and *)
(* before any positional or option verification.                           *)
(***************************************************************************)
C4_FirstDeferredWins ==
    LET errors == Events("error")
    IN  /\ pDeferred = (IF Len(errors) = 0 THEN Nothing ELSE Some(errors[1].str))
        /\ pc \in {"positional", "optional", "constraints"} => Len(errors) = 0
        /\ (Finished /\ Validated /\ Len(errors) > 0 /\ ~Triggered)
              => /\ outcome.kind = "ParseError"
                 /\ outcome.message = errors[1].str
                 /\ pIndex = Len(pArgs)
                 /\ chosen = 0

\* reached: two different errors were met, the first is raised, and the
\* positional verification would have failed as well
C4_Witness ==
    LET errors == Events("error")
    IN  /\ Finished /\ Validated /\ ~Triggered
        /\ Len(errors) >= 2 /\ errors[1].str # errors[2].str
        /\ outcome.message = errors[1].str
        /\ HasValue(fVerifyPositional(pConfig, pTopMost, pParsed).error)

(***************************************************************************)
(* C5: an option that was left without its payload makes Parse fail with   *)
(* the ParseError for that missing payload (no help/version triggered),    *)
(* whatever tokens follow, a later occurrence with a payload included.     *)
(***************************************************************************)
C5_MissingPayloadFails ==
    (Finished /\ Validated /\ ~Triggered /\ Len(Events("forgotten")) > 0)
        => /\ outcome.kind = "ParseError"
           /\ \E i \in 1..Len(Events("forgotten")) :
                 outcome.message = Message("PayloadMissing", Events("forgotten")[i].str)

(***************************************************************************)
(* C9 as stated: the single payload of an option token goes to the last    *)
(* entry of the run that accepts a payload.                                *)
(***************************************************************************)
\* the ids of the payload options an option token names, in the order of the token
RunOptions(valid, token) ==
    LET body == TokenBody(token)
        named(i) == IF IsLongToken(token) THEN FindOption(valid.options, body)
                    ELSE FindAbbreviation(valid.options, body[i])
        accepts == SelectSeq([i \in 1..(IF IsLongToken(token) THEN 1 ELSE Len(body)) |-> named(i)],
                             LAMBDA o : HasValue(o) /\ ValueOf(o).payload)
    IN  [i \in 1..Len(accepts) |-> ValueOf(accepts[i]).option.id]
\* the payload an option token at index t has at hand: inline, or the next token
PayloadAtHand(t) ==
    IF HasInline(pArgs[t]) THEN Some(SubSeq(pArgs[t], PayloadSplit(pArgs[t]) + 1, Len(pArgs[t])))
    ELSE IF t < Len(pArgs) THEN Some(pArgs[t + 1])
    ELSE Nothing
Assigned(t) == SelectSeq(trace, LAMBDA e : e.index = t /\ e.ev \in {"inline", "payload"})
Forgotten(t) == SelectSeq(trace, LAMBDA e : e.index = t /\ e.ev = "forgotten")

C9_LastEntryTakesPayload ==
    \A k \in 1..Len(trace) :
        LET t == trace[k].index
            run == RunOptions(pConfig, trace[k].str)
        IN  (trace[k].ev = "option" /\ Len(run) > 0 /\ HasValue(PayloadAtHand(t)))
                => /\ Len(Assigned(t)) = 1
                   /\ Assigned(t)[1].id = run[Len(run)]

(***************************************************************************)
(* C9, amended: the single payload of an option token goes to the first    *)
(* entry of the run that accepts a payload; every later entry of the run   *)
(* that accepts one is left without, and no token has two payloads.        *)
(***************************************************************************)
C9_FirstEntryTakesPayload ==
    \A k \in 1..Len(trace) :
        LET t == trace[k].index
            run == RunOptions(pConfig, trace[k].str)
        IN  trace[k].ev = "option" =>
                IF Len(run) > 0 /\ HasValue(PayloadAtHand(t))
                THEN /\ Len(Assigned(t)) = 1
                     /\ Assigned(t)[1].id = run[1]
                     /\ Assigned(t)[1].str = ValueOf(PayloadAtHand(t))
                     /\ [i \in 1..Len(Forgotten(t)) |-> Forgotten(t)[i].id] = Tail(run)
                ELSE /\ Len(Assigned(t)) = 0
                     /\ [i \in 1..Len(Forgotten(t)) |-> Forgotten(t)[i].id] = run

\* reached: a run of two different payload options, the first of which took
\* the payload, and the run has ended in a result that holds it
C9_Witness ==
    /\ Finished /\ outcome.kind = "Parsed"
    /\ \E k \in 1..Len(trace) :
          LET t == trace[k].index
              run == RunOptions(pConfig, trace[k].str)
          IN  /\ trace[k].ev = "option" /\ Len(run) = 2 /\ run[1] # run[2]
              /\ Len(Assigned(t)) = 1 /\ Assigned(t)[1].id = run[1]
              /\ Len(pParsed.pOptions[run[1]].values) > 0

(***************************************************************************)
(* C6: a payload option the selected leaf may use, without defaults, that  *)
(* was supplied c times with well-typed values while everything else is    *)
(* valid: Parse raises 'missing' iff c is below the minimum, 'too many'    *)
(* iff the maximum is not 0 and c is above it, and otherwise returns a     *)
(* result that holds exactly the c values in the order they were given.    *)
(***************************************************************************)
\* the limits of an option as the validation fixes them
LimitMinimum(option) == IF HasValue(option.require.minimum) THEN ValueOf(option.require.minimum) ELSE 0
LimitMaximum(option) ==
    IF ~HasValue(option.require.maximum)
    THEN (IF LimitMinimum(option) > 1 THEN LimitMinimum(option) ELSE 1)
    ELSE IF ValueOf(option.require.maximum) < LimitMinimum(option) THEN 0
    ELSE ValueOf(option.require.maximum)
\* the payloads the scan assigned to the option, in the order of the tokens
SuppliedTo(id) == SelectSeq(trace, LAMBDA e : e.id = id /\ e.ev \in {"inline", "payload"})
\* the id of the first entry of an enum that has the name
EntryId(type, name) ==
    type.entries[CHOOSE i \in 1..Len(type.entries) :
                     /\ type.entries[i].name = name
                     /\ \A j \in 1..(i - 1) : type.entries[j].name # name].id
WellTyped(type, str) ==
    /\ type.kind = "boolean" => str \in { <<"1">>, <<"0">> }
    /\ type.kind = "enum" => \E i \in 1..Len(type.entries) : type.entries[i].name = str
Converted(type, str) ==
    IF type.kind = "boolean" THEN BoolValue(str = <<"1">>)
    ELSE IF type.kind = "enum" THEN EnumValue(EntryId(type, str))
    ELSE StrValue(str)
\* the run has ended, and nothing but the count of the option can be wrong
OnlyCountMatters(n, k) ==
    LET option == config.nodes[n].options[k]
        given == SuppliedTo(option.id)
    IN  /\ Finished /\ Validated /\ ~Triggered
        /\ option.payload /\ Len(option.defValue) = 0
        /\ Len(Events("error")) = 0 /\ Len(Events("forgotten")) = 0
        /\ ~HasValue(fVerifyPositional(pConfig, pTopMost, [pParsed EXCEPT !.pPositional =
               [i \in 1..Len(Events("positional")) |-> StrValue(Events("positional")[i].str)]]).error)
        /\ \A i \in 1..Len(given) : WellTyped(option.type, given[i].str)
        /\ \A m \in 1..Len(config.nodes) : \A j \in 1..Len(config.nodes[m].options) :
              <<m, j>> # <<n, k>> => Len(SuppliedTo(config.nodes[m].options[j].id)) = 0

C6_CountDecides ==
    \A n \in 1..Len(config.nodes) : \A k \in 1..Len(config.nodes[n].options) :
        LET option == config.nodes[n].options[k]
            given == SuppliedTo(option.id)
            c == Len(given)
            missing == c < LimitMinimum(option)
            tooMany == LimitMaximum(option) # 0 /\ c > LimitMaximum(option)
        IN  OnlyCountMatters(n, k) =>
              /\ outcome = Outcome("ParseError", Message("OptionMissing", option.name), "none", FALSE) <=> missing
              /\ outcome = Outcome("ParseError", Message("TooMany", option.name), "none", FALSE) <=> tooMany
              /\ (~missing /\ ~tooMany) =>
                    /\ outcome.kind = "Parsed"
                    /\ IF c = 0 THEN ~HasOption(pParsed.pOptions, option.id)
                       ELSE pParsed.pOptions[option.id] =
                                [values |-> [i \in 1..c |-> Converted(option.type, given[i].str)],
                                 supplied |-> c]

\* reached: two different values, above a minimum of 1, returned in their order
C6_Witness ==
    \E n \in 1..Len(config.nodes) : \E k \in 1..Len(config.nodes[n].options) :
        LET option == config.nodes[n].options[k]
        IN  /\ OnlyCountMatters(n, k) /\ outcome.kind = "Parsed"
            /\ LimitMinimum(option) = 1
            /\ HasOption(pParsed.pOptions, option.id)
            /\ pParsed.pOptions[option.id].values = <<BoolValue(TRUE), BoolValue(FALSE)>>
\* reached: one value too many, and one too few
C6_WitnessTooMany ==
    /\ Finished /\ outcome.kind = "ParseError" /\ outcome.message.kind = "TooMany"
    /\ OnlyCountMatters(1, 1)
C6_WitnessMissing ==
    /\ Finished /\ outcome.kind = "ParseError" /\ outcome.message.kind = "OptionMissing"
    /\ OnlyCountMatters(1, 1) /\ Len(SuppliedTo(config.nodes[1].options[1].id)) = 1

(***************************************************************************)
(* C2: in every validated node with two or more endpoints, every count N   *)
(* of positionals is accepted by at most one endpoint, where an endpoint   *)
(* without positionals accepts N = 0 only and any other accepts N iff its  *)
(* effective minimum <= N and its maximum is 0 (unbounded) or >= N.        *)
(***************************************************************************)
Accepts(endpoint, N) ==
    IF Len(endpoint.positionals) = 0 THEN N = 0
    ELSE endpoint.minimumEffective <= N /\ (endpoint.maximum = 0 \/ N <= endpoint.maximum)
Accepting(endpoints, N) == { i \in 1..Len(endpoints) : Accepts(endpoints[i], N) }

C2_EndpointsDisjoint ==
    Validated =>
        \A n \in 1..Len(pConfig.nodes) : \A N \in 0..(MaxRequire + MaxPositionals) :
            Len(pConfig.nodes[n].endpoints) >= 2
                => Cardinality(Accepting(pConfig.nodes[n].endpoints, N)) <= 1

(***************************************************************************)
(* C3: when an endpoint of the selected leaf accepts the number N of       *)
(* supplied positionals, the parser selects that endpoint: no 'argument    *)
(* missing' and no 'unrecognized argument', and the result carries its id. *)
(***************************************************************************)
C3_AcceptingEndpointSelected ==
    LET endpoints == pConfig.nodes[pTopMost].endpoints
        N == Len(Events("positional"))
    IN  (Validated /\ pc \in {"optional", "constraints", "done"} /\ Len(Events("error")) = 0
                   /\ ~Triggered /\ Accepting(endpoints, N) # {})
            => /\ outcome.message.kind \notin {"ArgumentMissing", "UnrecognizedArgument"}
               /\ chosen \in Accepting(endpoints, N)
               /\ pParsed.pEndpoint = endpoints[chosen].id

(***************************************************************************)
(* C10 as stated: a supplied positional at index i fails as 'unrecognized' *)
(* only if i lies beyond the declared positionals and the maximum of the   *)
(* endpoint (0 = unbounded) excludes it as well.                           *)
(***************************************************************************)
\* the supplied positionals as the scan met them, and the endpoint they are checked against
RawPositionals == [i \in 1..Len(Events("positional")) |-> Events("positional")[i].str]
SelectedEndpoint ==
    pConfig.nodes[pTopMost].endpoints[
        SelectEndpoint(pConfig.nodes[pTopMost].endpoints, Len(RawPositionals), 1, 2)]
\* the positional verification has acted on the supplied positionals
PositionalsVerified ==
    /\ Validated /\ ~Triggered /\ Len(Events("error")) = 0
    /\ pc \in {"optional", "constraints", "done"}
    /\ Len(pConfig.nodes[pTopMost].endpoints) > 0
BeyondMaximum(endpoint, i) ==
    i >= Len(endpoint.positionals) /\ endpoint.maximum # 0 /\ i >= endpoint.maximum

C10_UnrecognizedOnlyBeyond ==
    (PositionalsVerified /\ outcome.message.kind = "UnrecognizedArgument")
        => \E i \in 0..(Len(RawPositionals) - 1) :
              /\ RawPositionals[i + 1] = outcome.message.str
              /\ BeyondMaximum(SelectedEndpoint, i)

(***************************************************************************)
(* C10, amended: a supplied positional at index i fails as 'unrecognized'  *)
(* only if the endpoint declares no positionals at all, or i lies beyond   *)
(* the declared positionals and the maximum (0 = unbounded) excludes it;   *)
(* every other supplied positional is type-checked against, and converted  *)
(* by, the positional at index min(i, positionalCount - 1), and the first  *)
(* supplied positional that fails decides the error.                       *)
(***************************************************************************)
Excluded(endpoint, i) == Len(endpoint.positionals) = 0 \/ BeyondMaximum(endpoint, i)
CatchAll(endpoint, i) ==
    endpoint.positionals[(IF i < Len(endpoint.positionals) THEN i ELSE Len(endpoint.positionals) - 1) + 1]
Rejected(endpoint, i) ==
    Excluded(endpoint, i) \/ ~WellTyped(CatchAll(endpoint, i).type, RawPositionals[i + 1])

C10_PositionalsChecked ==
    LET e == SelectedEndpoint
        N == Len(RawPositionals)
        bad == { i \in 0..(N - 1) : Rejected(e, i) }
        first == CHOOSE i \in bad : \A j \in bad : i <= j
    IN  PositionalsVerified =>
            IF bad # {}
            THEN /\ outcome.kind = "ParseError" /\ chosen = 0
                 /\ outcome.message =
                        IF Excluded(e, first) THEN Message("UnrecognizedArgument", RawPositionals[first + 1])
                        ELSE Message("InvalidBooleanArgument", CatchAll(e, first).name)
            ELSE /\ outcome.message.kind \notin {"UnrecognizedArgument", "InvalidBooleanArgument"}
                 /\ chosen # 0 =>
                       \A i \in 0..(N - 1) :
                           pParsed.pPositional[i + 1] = Converted(CatchAll(e, i).type, RawPositionals[i + 1])

\* reached: three positionals for a boolean and a string, the third checked as a string
C10_Witness ==
    /\ PositionalsVerified /\ Finished /\ outcome.kind = "Parsed"
    /\ Len(SelectedEndpoint.positionals) = 2 /\ Len(RawPositionals) = 3
    /\ SelectedEndpoint.positionals[1].type # SelectedEndpoint.positionals[2].type
    /\ ~WellTyped(SelectedEndpoint.positionals[1].type, RawPositionals[3])
\* reached: a positional beyond a maximum that is not 0
C10_WitnessBeyond ==
    /\ PositionalsVerified /\ outcome.message.kind = "UnrecognizedArgument"
    /\ Len(SelectedEndpoint.positionals) > 0

(***************************************************************************)
(* C7 as stated: a supplied option or flag, none of whose linked groups    *)
(* (its owner when it has no links) is the selected leaf or an ancestor of *)
(* it, makes Parse fail with the 'not meant' error for that option.        *)
(***************************************************************************)
\* the declared options with their owners, and the nodes from the root to n
Declared == Range(AllOptions(config.nodes))
RECURSIVE AncestorsOrSelf(_)
AncestorsOrSelf(n) == IF n = 0 THEN {} ELSE {n} \cup AncestorsOrSelf(config.nodes[n].parent)
\* the groups an option is linked with, its owner when there is none
Users(entry) ==
    LET linked == { n \in 1..Len(config.nodes) : config.nodes[n].links \cap entry.option.links # {} }
    IN  IF linked = {} THEN {entry.owner} ELSE linked
MayUse(leaf, entry) == Users(entry) \cap AncestorsOrSelf(leaf) # {}
WasSupplied(entry) ==
    \E k \in 1..Len(trace) : /\ trace[k].id = entry.option.id
                             /\ trace[k].ev \in {"flag", "inline", "payload", "forgotten"}
\* the scan and the positional verification went through for a selected leaf
OptionsVerified ==
    /\ Finished /\ Validated /\ ~Triggered /\ Len(Events("error")) = 0
    /\ Len(pConfig.nodes[pTopMost].endpoints) > 0
    /\ ~HasValue(fVerifyPositional(pConfig, pTopMost, [pParsed EXCEPT !.pPositional =
           [i \in 1..Len(RawPositionals) |-> StrValue(RawPositionals[i])]]).error)
NotMeantFor == { entry \in Declared : WasSupplied(entry) /\ ~MayUse(pTopMost, entry) }

C7_NotMeantRaised ==
    (OptionsVerified /\ NotMeantFor # {})
        => /\ outcome.kind = "ParseError"
           /\ \E entry \in NotMeantFor : outcome.message = Message("NotMeant", entry.option.name)

(***************************************************************************)
(* C7, amended: such an option makes Parse fail: the error is the 'not     *)
(* meant' error of the first such option in name order, unless the check   *)
(* of an option before it in name order fails first; and no 'not meant'    *)
(* error is raised for a supplied option that the leaf or one of its       *)
(* ancestors is linked with.                                               *)
(***************************************************************************)
C7_NotMeantInNameOrder ==
    LET first == CHOOSE entry \in NotMeantFor :
                     \A other \in NotMeantFor :
                         other = entry \/ StrLess(entry.option.name, other.option.name)
    IN  OptionsVerified =>
          /\ NotMeantFor # {} =>
                /\ outcome.kind = "ParseError"
                /\ \/ outcome.message = Message("NotMeant", first.option.name)
                   \/ /\ outcome.message.kind \in {"PayloadMissing", "OptionMissing", "TooMany",
                                                   "InvalidBooleanOption", "InvalidEnumOption"}
                      /\ StrLess(outcome.message.str, first.option.name)
          /\ \A entry \in Declared :
                (WasSupplied(entry) /\ MayUse(pTopMost, entry))
                    => outcome.message # Message("NotMeant", entry.option.name)

\* reached: in gc below ga, a flag linked with gb only is refused, and in
\* the same way a flag linked with ga is let through
C7_Witness ==
    /\ OptionsVerified /\ outcome.message.kind = "NotMeant"
    /\ Cardinality(AncestorsOrSelf(pTopMost)) = 3
    /\ \E entry \in NotMeantFor : Users(entry) # {entry.owner}
C7_WitnessUsable ==
    /\ OptionsVerified /\ outcome.kind = "Parsed"
    /\ \E entry \in Declared :
          /\ WasSupplied(entry) /\ MayUse(pTopMost, entry)
          /\ pTopMost \notin Users(entry) /\ entry.owner \notin Users(entry)

(***************************************************************************)
(* C8: an option that the selected leaf may not use and that was not       *)
(* supplied never makes Parse fail (no 'missing' error, whatever its       *)
(* minimum) and adds no default values to the result.                      *)
(***************************************************************************)
C8_UnusableOptionIgnored ==
    \A entry \in Declared :
        (OptionsVerified /\ ~WasSupplied(entry) /\ ~MayUse(pTopMost, entry))
            => /\ outcome.message.str # entry.option.name
               /\ outcome.kind = "Parsed" => ~HasOption(pParsed.pOptions, entry.option.id)

(***************************************************************************)
(* C11: after a successful parse with N supplied positionals the list of   *)
(* positionals is the N supplied values, converted, followed by the        *)
(* defaults of the slots N, N+1, ... below max(positionalCount,            *)
(* minimumActual), slot i taking the positional at min(i,                  *)
(* positionalCount-1), up to the first slot without a default; a default   *)
(* that names an enum entry appears as the id of that entry.               *)
(***************************************************************************)
RECURSIVE DefaultSlots(_, _, _)
DefaultSlots(endpoint, i, limit) ==
    IF i >= limit \/ ~HasValue(CatchAll(endpoint, i).defValue) THEN <<>>
    ELSE LET positional == CatchAll(endpoint, i)
             declared == ValueOf(positional.defValue)
         IN  << IF positional.type.kind = "enum"
                THEN EnumValue(EntryId(positional.type, declared.s)) ELSE declared >>
             \o DefaultSlots(endpoint, i + 1, limit)

C11_DefaultsBackfilled ==
    (Finished /\ outcome.kind = "Parsed") =>
        LET e == pConfig.nodes[pTopMost].endpoints[chosen]
            N == Len(RawPositionals)
            count == Len(e.positionals)
            limit == IF count >= e.minimumActual THEN count ELSE e.minimumActual
        IN  /\ pParsed.pSuppliedPositionals = N
            /\ pParsed.pPositional =
                   [i \in 1..N |-> Converted(CatchAll(e, i - 1).type, RawPositionals[i])]
                   \o DefaultSlots(e, N, limit)

\* reached: one supplied entry name for the only positional, an enum, and the
\* default of that enum as its id for a slot beyond the declared positionals
C11_Witness ==
    /\ Finished /\ outcome.kind = "Parsed"
    /\ Len(RawPositionals) = 1
    /\ Len(pConfig.nodes[pTopMost].endpoints[chosen].positionals) = 1
    /\ pParsed.pPositional = <<EnumValue(4), EnumValue(5)>>

(***************************************************************************)
(* Constraint callbacks.                                                   *)
(***************************************************************************)
\* the callbacks that ran, by name, in the order they ran
Ran == [i \in 1..Len(Events("constraint")) |-> Events("constraint")[i].str]
Names(checkers) == [i \in 1..Len(checkers) |-> checkers[i].name]
\* the message the declared callback of that name returns
Returned(name) ==
    LET declared == UNION { Range(config.nodes[n].constraints) : n \in 1..Len(config.nodes) }
                    \cup UNION { UNION { Range(config.nodes[n].endpoints[k].constraints) :
                                             k \in 1..Len(config.nodes[n].endpoints) } :
                                   n \in 1..Len(config.nodes) }
                    \cup UNION { Range(entry.option.constraints) : entry \in Declared }
    IN  (CHOOSE c \in declared : c.name = name).message
\* the callbacks of the root, of the selected groups from the root to the
\* leaf, and of the selected endpoint, in that order
RECURSIVE RootToLeaf(_)
RootToLeaf(n) ==
    IF n = 0 THEN <<>> ELSE RootToLeaf(config.nodes[n].parent) \o config.nodes[n].constraints
StructuralCallbacks ==
    LET declared == config.nodes[pTopMost].endpoints
        selected == { k \in 1..Len(declared) : declared[k].id = pParsed.pEndpoint }
    IN  Names(RootToLeaf(pTopMost)
              \o (IF selected = {} THEN <<>> ELSE declared[CHOOSE k \in selected : TRUE].constraints))
\* an entry for the option exists in the result: it occurred, or it was
\* filled in from its defaults
InResult(entry) ==
    IF entry.option.payload THEN HasOption(pParsed.pOptions, entry.option.id)
    ELSE entry.option.id \in pParsed.pFlags
\* both verifications went through: the count and the types of the
\* positionals, and the number of times each option was supplied
VerificationPassed ==
    /\ OptionsVerified
    /\ \A entry \in Declared :
          LET n == Len(SuppliedTo(entry.option.id))
          IN  entry.option.payload =>
                  \/ n < Len(entry.option.defValue)
                  \/ /\ n >= OptionMinimumActual(entry.option)
                     /\ OptionMaximum(entry.option) = 0 \/ n <= OptionMaximum(entry.option)
\* the run stops at the first callback that returns a message, which becomes
\* the ParseError; a result is returned when every callback passed
StopsAtFirstMessage ==
    /\ \A i \in 1..(Len(Ran) - 1) : Returned(Ran[i]) = <<>>
    /\ IF Len(Ran) > 0 /\ Returned(Ran[Len(Ran)]) # <<>>
       THEN outcome.kind = "ParseError" /\ outcome.message = Message("Constraint", Returned(Ran[Len(Ran)]))
       ELSE outcome.kind = "Parsed"
\* the callbacks ran in the order of the claim, those of the options Has
\* picks last, in any order
RECURSIVE Distinct(_)
Distinct(s) == Len(s) < 2 \/ (Head(s) \notin Range(Tail(s)) /\ Distinct(Tail(s)))
RanInOrder(Has(_)) ==
    LET fixed == StructuralCallbacks
        k == Min(Len(Ran), Len(fixed))
        rest == SubSeq(Ran, k + 1, Len(Ran))
        ofOptions == UNION { Range(Names(entry.option.constraints)) : entry \in { e \in Declared : Has(e) } }
    IN  /\ SubSeq(Ran, 1, k) = SubSeq(fixed, 1, k)
        /\ Range(rest) \subseteq ofOptions /\ Distinct(rest)
        /\ outcome.kind = "Parsed" => Len(fixed) = k /\ Range(rest) = ofOptions

\* C12 as stated: callbacks run only after both verifications passed, the
\* root's first, then those of each selected group from the root to the leaf,
\* then the selected endpoint's, then those of every option that occurred in
\* the tokens, and none after the first that returns a message
C12_TriggeredOptionsChecked ==
    (Finished /\ (Len(Ran) > 0 \/ outcome.kind = "Parsed")) =>
        VerificationPassed /\ StopsAtFirstMessage /\ RanInOrder(WasSupplied)

\* what the code does instead: the last callbacks are those of every option
\* with an entry in the result (it occurred, or it was filled in from its
\* defaults), in the order of the option names
C12_ConstraintsInOrder ==
    (Finished /\ (Len(Ran) > 0 \/ outcome.kind = "Parsed")) =>
        /\ VerificationPassed /\ StopsAtFirstMessage /\ RanInOrder(InResult)
        /\ LET present == SelectSeq(pConfig.options, InResult)
               all == StructuralCallbacks
                      \o Names(Concat([i \in 1..Len(present) |-> present[i].option.constraints]))
           IN  Ran = SubSeq(all, 1, Len(Ran))

\* reached: root, group and endpoint callbacks passed, the callback of the
\* option that occurred failed and became the ParseError
C12_Witness ==
    /\ Finished /\ Ran = <<"r", "g", "e", "n">>
    /\ WasSupplied([owner |-> 1, option |-> config.nodes[1].options[2]])
    /\ outcome = Outcome("ParseError", Message("Constraint", <<"n">>), "none", FALSE)
\* reached: the option did not occur, and its callback ran for its default
C12_WitnessDefault ==
    /\ Finished /\ outcome.kind = "Parsed" /\ Ran = <<"r", "g", "e", "n">>
    /\ Len(SuppliedTo(2)) = 0

(***************************************************************************)
(* The outcomes of Parse.                                                  *)
(***************************************************************************)
\* the validation accepts the configuration
Accepted == \E order \in EndpointOrders(config) : Len(ConfigErrors(config, order)) = 0

\* C13: a result is returned only if the validation succeeded, the scan
\* recorded no error, neither help nor version was requested, both
\* verifications and every executed callback passed; otherwise the outcome is
\* one of ConfigError, PrintRequested and ParseError, and a rejected
\* configuration leaves no tree and no scan behind
C13_ResultOnlyIfAllPassed ==
    Finished =>
        /\ outcome.kind \in { "Parsed", "ConfigError", "PrintRequested", "ParseError" }
        /\ outcome.kind = "Parsed" <=>
               /\ Accepted /\ Len(Events("error")) = 0 /\ ~Triggered
               /\ VerificationPassed
               /\ \A i \in 1..Len(Ran) : Returned(Ran[i]) = <<>>
        /\ outcome.kind = "ConfigError" <=> ~Accepted
        /\ outcome.kind = "PrintRequested" <=> (Accepted /\ Triggered)
        /\ outcome.kind = "ConfigError" => pConfig = <<>> /\ trace = <<>> /\ pParsed = EmptyParsed
        /\ outcome.kind # "Parsed" => outcome.kind = "PrintRequested" \/ Len(outcome.message.kind) > 0

\* reached: a callback of the endpoint failed after those of root and group
C13_Witness ==
    /\ Finished /\ outcome.kind = "ParseError" /\ outcome.message.kind = "Constraint"
    /\ Ran = <<"r", "g", "e">>
\* reached: every other outcome, the ParseError for each of its causes
C13_WitnessParsed == Finished /\ outcome.kind = "Parsed" /\ Len(Ran) = 4
C13_WitnessConfig == Finished /\ outcome.kind = "ConfigError"
C13_WitnessPrint == Finished /\ outcome.kind = "PrintRequested" /\ Len(Events("error")) > 0
C13_WitnessDeferred == Finished /\ outcome.kind = "ParseError" /\ Len(Events("error")) > 0
C13_WitnessVerification ==
    /\ Finished /\ outcome.kind = "ParseError" /\ Len(Events("error")) = 0 /\ Len(Ran) = 0
    /\ Len(SuppliedTo(2)) = 2

(***************************************************************************)
(* Option ids and links.                                                   *)
(***************************************************************************)
\* the pairs of declared options with the same id
SharedIds ==
    { pair \in Declared \X Declared : pair[1] # pair[2] /\ pair[1].option.id = pair[2].option.id }

\* C14: two options anywhere in the tree with the same id, flags or with a
\* payload, of one node or of different groups, make the validation fail
C14_SharedIdRejected ==
    (pc # "validate" /\ SharedIds # {}) => outcome.kind = "ConfigError"

\* reached: a flag of group ga and an option of group gb have the same id,
\* nothing else is wrong, and the validation failed for that
C14_Witness ==
    /\ Finished
    /\ \E pair \in SharedIds : /\ pair[1].owner = 2 /\ pair[2].owner = 4
                              /\ ~pair[1].option.payload /\ pair[2].option.payload
    /\ outcome = Outcome("ConfigError", Message("Option ids must be unique.", <<>>), "none", FALSE)

\* the groups that share a reference id with the option, whichever side
\* declared it, and whose path from the root does not pass its owner
ForeignLinks(entry) ==
    { n \in 1..Len(config.nodes) :
        /\ config.nodes[n].links \cap entry.option.links # {}
        /\ entry.owner \notin AncestorsOrSelf(n) }

\* C15: a group that shares a reference id with an option owned neither by
\* that group nor by one of its ancestors makes the validation fail
C15_ForeignLinkRejected ==
    (pc # "validate" /\ \E entry \in Declared : ForeignLinks(entry) # {}) =>
        outcome.kind = "ConfigError"

\* reached: the flag of group gc is linked to its parent ga only, nothing
\* else is wrong, and the validation failed for that
C15_Witness ==
    /\ Finished
    /\ \E entry \in Declared : entry.owner = 3 /\ ForeignLinks(entry) = {2}
    /\ LinkedGroups(config.nodes, {5}) = {2}
    /\ outcome = Outcome("ConfigError",
                         Message("Group cannot be linked to objects from another group.", <<>>),
                         "none", FALSE)
\* reached: the flag of group ga is linked to its sibling gb only
C15_WitnessSibling ==
    /\ Finished
    /\ \E entry \in Declared : entry.owner = 2 /\ ForeignLinks(entry) = {4}
    /\ LinkedGroups(config.nodes, {5}) = {4}
    /\ outcome = Outcome("ConfigError",
                         Message("Group cannot be linked to objects from another group.", <<>>),
                         "none", FALSE)

(***************************************************************************)
(* Defaults of positionals.                                                *)
(***************************************************************************)
\* the positional lists and minimums of the endpoints as declared: the
\* implicit endpoint of a node without endpoints of its own, or its endpoints
PositionalLists ==
    UNION { IF Len(config.nodes[n].endpoints) = 0
            THEN { [positionals |-> config.nodes[n].positionals,
                    minimum |-> ValueOr(config.nodes[n].require.minimum, Len(config.nodes[n].positionals))] }
            ELSE { [positionals |-> config.nodes[n].endpoints[k].positionals,
                    minimum |-> ValueOr(config.nodes[n].endpoints[k].require.minimum,
                                        Len(config.nodes[n].endpoints[k].positionals))] :
                     k \in 1..Len(config.nodes[n].endpoints) } :
            n \in { m \in 1..Len(config.nodes) : Children(config.nodes, m) = {} } }
Defaulted(list, slot) ==
    HasValue(list.positionals[Min(slot, Len(list.positionals) - 1) + 1].defValue)

\* C16 as stated: in an accepted endpoint every positional before a
\* defaulted one is defaulted too
C16_DefaultsLeading ==
    Validated =>
        \A list \in PositionalLists : \A i \in 0..(Len(list.positionals) - 1) :
            Defaulted(list, i) => \A j \in 0..(i - 1) : Defaulted(list, j)

\* C16, amended: an endpoint is accepted only if every slot between a
\* defaulted positional and the minimum is defaulted too (slot j takes
\* positional min(j, count - 1)), and every endpoint that breaks this is
\* rejected
DefaultsTrailing(list) ==
    \A i \in 0..(Len(list.positionals) - 1) :
        Defaulted(list, i) => \A j \in (i + 1)..(list.minimum - 1) : Defaulted(list, j)
C16_DefaultsTrailing ==
    /\ Validated => \A list \in PositionalLists : DefaultsTrailing(list)
    /\ (pc # "validate" /\ \E list \in PositionalLists : ~DefaultsTrailing(list)) =>
           outcome.kind = "ConfigError"

\* reached: a defaulted positional before one without default is rejected
C16_Witness ==
    /\ Finished
    /\ \E list \in PositionalLists :
          Len(list.positionals) = 2 /\ Defaulted(list, 0) /\ ~Defaulted(list, 1) /\ list.minimum = 2
    /\ outcome = Outcome("ConfigError",
                         Message("All positionals up to the minimum must be defaulted once one is defaulted.", <<>>),
                         "none", FALSE)
\* reached: a defaulted positional after one without default is accepted and
\* fills the slot that was not supplied
C16_WitnessAccepted ==
    /\ Finished /\ outcome.kind = "Parsed"
    /\ \E list \in PositionalLists :
          Len(list.positionals) = 2 /\ ~Defaulted(list, 0) /\ Defaulted(list, 1) /\ list.minimum = 2
    /\ Len(RawPositionals) = 1 /\ Len(pParsed.pPositional) = 2

(***************************************************************************)
(* The positional lock and the selection of groups.                        *)
(***************************************************************************)
\* the events of the tokens scanned after the first positional lock
AfterLock ==
    SelectSeq(trace, LAMBDA e : \E k \in 1..Len(trace) : trace[k].ev = "lock" /\ trace[k].index < e.index)
\* whether a positional was pushed before the token of that index
PushedBefore(index) == \E k \in 1..Len(trace) : trace[k].ev = "positional" /\ trace[k].index < index

\* C17 as stated: once the positional lock was scanned, every later token is
\* a positional, whatever it looks like
C17_LockedTokensPositional ==
    \A i \in 1..Len(AfterLock) : AfterLock[i].ev = "positional"

\* C17, amended: once the positional lock was scanned it stays set, and no
\* later token is an option, an abbreviation run or another lock; a token
\* scanned at a node with child groups still selects a group or records the
\* unknown group, a menu still takes the name of its help or version entry
\* as the request while no positional was pushed, and every other token is a
\* positional
C17_LockedTokensNoOptions ==
    /\ (\E k \in 1..Len(trace) : trace[k].ev = "lock") => pPositionalLocked
    /\ \A i \in 1..Len(AfterLock) :
          LET e == AfterLock[i]
          IN  \/ e.ev = "positional"
              \/ e.ev \in { "group", "nogroup" }
              \/ e.ev = "error" /\ e.str.kind = "UnknownGroup"
              \/ e.ev \in { "help", "version" } /\ ~ProgramMode /\ ~PushedBefore(e.index)
    /\ \A t \in 1..pIndex :
          (/\ \E k \in 1..Len(trace) : trace[k].ev = "lock" /\ trace[k].index < t
           /\ Len(pArgs[t]) > 0 /\ pArgs[t][1] = "-"
           /\ \E k \in 1..Len(trace) : trace[k].ev = "group" /\ trace[k].index < t
                                       /\ Children(config.nodes, trace[k].id) = {})
          => \E k \in 1..Len(trace) : trace[k] = Event("positional", t, 0, pArgs[t])

\* reached: the long help option after the lock was pushed as a positional
C17_Witness ==
    /\ Finished /\ ProgramMode /\ outcome.kind = "Parsed"
    /\ pArgs = << <<"p">>, <<"g", "b">>, <<"-", "-">>, <<"-", "-", "h", "e">> >>
    /\ pParsed.pPositional = << StrValue(<<"-", "-", "h", "e">>) >>
\* reached: a group selected and the help of a menu requested after the lock
C17_WitnessGroup ==
    /\ Finished /\ ~ProgramMode /\ outcome.kind = "PrintRequested"
    /\ \E i, j \in 1..Len(AfterLock) : AfterLock[i].ev = "group" /\ AfterLock[j].ev = "help"

\* the positions in the history where a token matched no child group
UnknownGroups == { k \in 1..Len(trace) : trace[k].ev = "nogroup" }
Later(k) == { l \in 1..Len(trace) : trace[l].index > trace[k].index }
\* the unknown group is the deferred error when it is the first error
RecordedIfFirst(k) ==
    /\ HasValue(pDeferred)
    /\ (\A l \in 1..(k - 1) : trace[l].ev # "error") =>
           pDeferred = Some(Message("UnknownGroup", trace[k].str))

\* C18 as stated: a token that matches no child group records the deferred
\* error, and every later token is consumed as a positional: none selects a
\* group
C18_UnknownGroupEndsSelection ==
    \A k \in UnknownGroups :
        /\ RecordedIfFirst(k)
        /\ \A l \in Later(k) : trace[l].ev \notin { "group", "nogroup" }

\* C18, amended: a token that matches no child group records the deferred
\* error if it is the first, is dropped and leaves the current node as it
\* is; the scan goes on to the last token, later tokens are still matched
\* against the child groups, and none is pushed as a positional before a
\* group was selected; the deferred error is raised after the scan unless a
\* print was requested
C18_UnknownGroupDeferred ==
    /\ pc # "scan" /\ Validated => pIndex = Len(pArgs)
    /\ \A k \in UnknownGroups :
          /\ RecordedIfFirst(k)
          /\ \A l \in 1..Len(trace) :
                trace[l].index = trace[k].index => trace[l].ev \in { "nogroup", "error" }
          /\ \A l \in Later(k) :
                trace[l].ev = "positional" =>
                    \E g \in Later(k) : trace[g].ev = "group" /\ trace[g].index < trace[l].index
          /\ Finished => IF Triggered THEN outcome.kind = "PrintRequested"
                         ELSE outcome.kind = "ParseError" /\ outcome.message = ValueOf(pDeferred)

\* reached: a token matched no group, the next selected a group and the one
\* after it was pushed as a positional; the unknown group was the error
C18_Witness ==
    /\ Finished
    /\ \E k \in UnknownGroups : \E g, l \in Later(k) :
          /\ trace[g].ev = "group" /\ trace[l].ev = "positional" /\ trace[g].index < trace[l].index
          /\ outcome = Outcome("ParseError", Message("UnknownGroup", trace[k].str), "none", FALSE)

\* the ids of the groups on the path from the root to the node
RECURSIVE PathIds(_)
PathIds(n) ==
    IF config.nodes[n].parent = 0 THEN <<>>
    ELSE Append(PathIds(config.nodes[n].parent), config.nodes[n].id)

\* C19: the selected group ids are the ids on the path from the root to the
\* current node, one for each level, and the current node only moves to one
\* of its children
C19_GroupIdsFollowPath ==
    /\ [](/\ pParsed.pGroupIds = PathIds(pTopMost)
          /\ Len(pParsed.pGroupIds) = Cardinality(AncestorsOrSelf(pTopMost)) - 1)
    /\ [][pTopMost' # pTopMost => config.nodes[pTopMost'].parent = pTopMost]_vars

\* reached: the scan went down two levels
C19_Witness == pTopMost = 3 /\ pParsed.pGroupIds = <<7, 8>> /\ pc = "scan"

(***************************************************************************)
(* Flags.                                                                  *)
(***************************************************************************)
\* the ids of the declared flags that an option token of the scan names, by
\* its long name or by the abbreviation in a run
FlagsNamed ==
    { entry.option.id : entry \in
        { e \in Declared :
            /\ ~e.option.payload
            /\ \E k \in 1..Len(trace) :
                  /\ trace[k].ev = "option"
                  /\ IF IsLongToken(trace[k].str) THEN TokenBody(trace[k].str) = e.option.name
                     ELSE \E i \in 1..Len(TokenBody(trace[k].str)) :
                              TokenBody(trace[k].str)[i] = e.option.abbreviation } }

\* C20: on a successful parse the flag set holds the ids of the flags that
\* occurred in an option token, each once
C20_FlagsAsNamed ==
    (Finished /\ outcome.kind = "Parsed") => pParsed.pFlags = FlagsNamed

\* reached: one flag by abbreviation, twice, the other by its long name and
\* in a run
C20_Witness ==
    /\ Finished /\ outcome.kind = "Parsed"
    /\ pArgs = << <<"p">>, <<"-", "f">>, <<"-", "-", "f", "m">>, <<"-", "m", "f">> >>
    /\ pParsed.pFlags = {1, 2}

(***************************************************************************)
(* Defaults of options.                                                    *)
(***************************************************************************)
\* the values the claim gives an option with defaults: the supplied values,
\* converted, and the defaults from the number of supplied values on
Filled(option) ==
    LET given == SuppliedTo(option.id)
        c == Len(given)
        k == Len(option.defValue)
    IN  [i \in 1..c |-> Converted(option.type, given[i].str)]
        \o [i \in 1..(IF c < k THEN k - c ELSE 0) |-> Converted(option.type, option.defValue[c + i].s)]

\* C21: on a successful parse an option with defaults that was supplied c
\* times holds the supplied values, then the defaults from number c on, and
\* reports c as its supplied count
C21_DefaultsFillOption ==
    (Finished /\ outcome.kind = "Parsed") =>
        \A entry \in Declared :
            (entry.option.payload /\ Len(entry.option.defValue) > 0) =>
                /\ HasOption(pParsed.pOptions, entry.option.id)
                /\ pParsed.pOptions[entry.option.id].values = Filled(entry.option)
                /\ pParsed.pOptions[entry.option.id].supplied = Len(SuppliedTo(entry.option.id))

\* what holds instead: the same, for the runs in which no occurrence of an
\* option was left without its payload
C21_DefaultsFillUnlessForgotten ==
    Len(Events("forgotten")) = 0 => C21_DefaultsFillOption

\* reached: the enum option was supplied once and its second default, as
\* its id, follows the supplied entry; the string option got its defaults
C21_Witness ==
    /\ Finished /\ outcome.kind = "Parsed"
    /\ Len(SuppliedTo(3)) = 1 /\ Len(SuppliedTo(2)) = 0
    /\ pParsed.pOptions[3] = [values |-> <<EnumValue(4), EnumValue(4)>>, supplied |-> 1]
    /\ pParsed.pOptions[2].values = <<StrValue(<<"d">>), StrValue(<<"e">>)>>

(***************************************************************************)
(* Two calls of Parse.                                                     *)
(***************************************************************************)
\* the second call has ended; what the first call ended with
Repeated == Finished /\ Len(trace) > 0 /\ trace[1].ev = "first"
First == trace[1].str
\* the sort left the endpoints of equal effective minimum in the same order
\* in both calls, as far as the calls show it
SameSort ==
    /\ (First.outcome.kind = "ConfigError") = (outcome.kind = "ConfigError")
    /\ outcome.kind # "ConfigError" =>
           \A n \in 1..Len(pConfig.nodes) : pConfig.nodes[n].endpoints = First.pConfig.nodes[n].endpoints

C22_WitnessPrint == Repeated /\ outcome.kind = "PrintRequested" /\ First.outcome.kind = "PrintRequested"
C22_WitnessError == Repeated /\ outcome.kind = "ParseError" /\ First.outcome.kind = "ParseError"
C22_WitnessConfig == Repeated /\ outcome.kind = "ConfigError" /\ First.outcome.kind = "ConfigError"
\* reached: the two calls differ where the sort ordered the endpoints of
\* equal effective minimum differently
C22_WitnessOtherSort == Repeated /\ ~SameSort

(***************************************************************************)
(* Names and abbreviations of options and of groups.                       *)
(***************************************************************************)
\* pairs of declared options of one name or of one abbreviation
SharedOptionNames ==
    { pair \in Declared \X Declared :
        /\ pair[1] # pair[2]
        /\ \/ pair[1].option.name = pair[2].option.name
           \/ /\ pair[1].option.abbreviation # NoChar
              /\ pair[1].option.abbreviation = pair[2].option.abbreviation }
\* pairs of groups of one name or of one abbreviation
SharedGroupNames ==
    { pair \in (2..Len(config.nodes)) \X (2..Len(config.nodes)) :
        /\ pair[1] < pair[2]
        /\ \/ config.nodes[pair[1]].name = config.nodes[pair[2]].name
           \/ /\ config.nodes[pair[1]].abbreviation # NoChar
              /\ config.nodes[pair[1]].abbreviation = config.nodes[pair[2]].abbreviation }
Siblings(pair) == config.nodes[pair[1]].parent = config.nodes[pair[2]].parent

\* C23: two options of one name or one abbreviation make the validation
\* fail wherever in the tree they are declared, and two groups of one name
\* or one abbreviation make it fail only as children of one node: with the
\* names as the only fault, the validation fails exactly for these two
C23_NamesUnique ==
    pc # "validate" =>
        /\ outcome.kind = "ConfigError" <=>
               (SharedOptionNames # {} \/ \E pair \in SharedGroupNames : Siblings(pair))
        /\ outcome.kind = "ConfigError" =>
               outcome.message.kind \in
                   (IF SharedOptionNames # {}
                    THEN { "Option names must be unique.", "Option abbreviations must be unique." }
                    ELSE {})
                   \cup (IF \E pair \in SharedGroupNames : Siblings(pair)
                         THEN { "Group names within a sub-group must be unique.",
                                "Group abbreviations within a sub-group must be unique." }
                         ELSE {})

\* reached: the flags fl of the groups ga and gb, which share nothing else,
\* made the validation fail
C23_Witness ==
    /\ Finished
    /\ \E pair \in SharedOptionNames :
          /\ pair[1].owner = 2 /\ pair[2].owner = 4
          /\ pair[1].option.name = pair[2].option.name
          /\ pair[1].option.abbreviation # pair[2].option.abbreviation
    /\ config.nodes[4].parent = 1
    /\ outcome = Outcome("ConfigError", Message("Option names must be unique.", <<>>), "none", FALSE)
\* reached: the same for one abbreviation of two names
C23_WitnessAbbreviation ==
    /\ Finished
    /\ \E pair \in SharedOptionNames :
          /\ pair[1].owner = 3 /\ pair[2].owner = 4
          /\ pair[1].option.name # pair[2].option.name
    /\ outcome = Outcome("ConfigError", Message("Option abbreviations must be unique.", <<>>), "none", FALSE)
\* reached: the group gc (c) of the root and the group gc (c) of ga were
\* accepted, and each was selected by its name under its parent
C23_WitnessGroups ==
    /\ Finished /\ outcome.kind = "Parsed"
    /\ \E pair \in SharedGroupNames :
          /\ ~Siblings(pair)
          /\ config.nodes[pair[1]].name = config.nodes[pair[2]].name
          /\ config.nodes[pair[1]].abbreviation = config.nodes[pair[2]].abbreviation
    /\ pTopMost = 4
\* reached: two children of one node with one name were rejected
C23_WitnessSiblings ==
    /\ Finished /\ SharedOptionNames = {}
    /\ outcome = Outcome("ConfigError", Message("Group names within a sub-group must be unique.", <<>>), "none", FALSE)

(***************************************************************************)
(* A maximum below the minimum.                                            *)
(***************************************************************************)
\* the requirement declares a maximum smaller than its minimum
NoMaximum(require) ==
    /\ HasValue(require.minimum) /\ HasValue(require.maximum)
    /\ ValueOf(require.maximum) < ValueOf(require.minimum)
\* the declared endpoints and options of that kind
OpenEndpoints ==
    UNION { { e \in Range(config.nodes[n].endpoints) : NoMaximum(e.require) /\ Len(e.positionals) > 0 } :
            n \in 1..Len(config.nodes) }
OpenOptions == { entry \in Declared : entry.option.payload /\ NoMaximum(entry.option.require) }
ValidatedEndpoint(id) ==
    CHOOSE e \in UNION { Range(pConfig.nodes[n].endpoints) : n \in 1..Len(pConfig.nodes) } : e.id = id
ValidatedOption(id) == CHOOSE o \in Range(pConfig.options) : o.option.id = id

\* C24: an endpoint or an option whose declared maximum is smaller than its
\* declared minimum is validated with the maximum 0, and a run that supplies
\* at least the minimum of positionals or of occurrences, all of them of the
\* declared type, does not fail for their number
C24_NoMaximumAcceptsAll ==
    Validated =>
        /\ \A e \in OpenEndpoints :
              /\ ValidatedEndpoint(e.id).maximum = 0
              /\ (Finished /\ ~Triggered /\ Len(Events("error")) = 0
                           /\ Len(pParsed.pPositional) >= ValidatedEndpoint(e.id).minimumEffective)
                     => outcome.message.kind \notin { "ArgumentMissing", "UnrecognizedArgument" }
        /\ \A entry \in OpenOptions :
              /\ ValidatedOption(entry.option.id).maximum = 0
              /\ (Finished /\ Len(SuppliedTo(entry.option.id)) >= ValueOf(entry.option.require.minimum))
                     => ~(outcome.message.kind \in { "OptionMissing", "TooMany" }
                          /\ outcome.message.str = entry.option.name)

(***************************************************************************)
(* The visibility.                                                         *)
(***************************************************************************)
\* C25: the visibility of options, groups and endpoints makes no difference
\* for a run: the same tokens parsed by the same configuration with
\* everything visible take the same steps, raise the same errors and end
\* with the same outcome, print request and result
C25_VisibilityIgnored ==
    Repeated =>
        /\ outcome = First.outcome
        /\ pParsed = First.pParsed
        /\ Tail(trace) = First.trace

\* reached: the hidden flag and option were given in the hidden group, whose
\* hidden endpoint took its positional, and the visible run returned the same
C25_Witness ==
    /\ Repeated /\ outcome.kind = "Parsed"
    /\ First.pConfig.nodes[2].endpoints[1].hidden /\ ~pConfig.nodes[2].endpoints[1].hidden
    /\ \E o \in Range(First.pConfig.options) : o.option.hidden
    /\ pTopMost = 2 /\ Len(pParsed.pPositional) = 1 /\ pParsed.pFlags # {}
\* reached: the same for a print request and for an error
C25_WitnessPrint ==
    Repeated /\ outcome.kind = "PrintRequested" /\ First.pConfig # pConfig
C25_WitnessError ==
    Repeated /\ outcome.kind = "ParseError" /\ First.pConfig # pConfig

(***************************************************************************)
(* The accessors of a value.                                               *)
(***************************************************************************)
Accesses == Events("access")
Numbers == { "unum", "inum", "real" }

\* C26 as stated: a string and a resolved enum id are not read as a number,
\* a boolean is not read as a number or as a string: these accessors throw
C26_WrongKindThrows ==
    \A k \in 1..Len(Accesses) :
        LET a == Accesses[k].str
        IN  /\ (a.value.t \in { "str", "enum" } /\ a.accessor \in Numbers) => a.result.thrown
            /\ (a.value.t = "bool" /\ a.accessor \in Numbers \cup { "str" }) => a.result.thrown

\* C26: an accessor throws exactly for the kinds it does not cover, where
\* unum covers an unsigned number and an enum (its id), inum these and a
\* signed number, real the three numbers, boolean a boolean, and str a string
\* and an enum; so a string is read by str only, a boolean by boolean only,
\* and an enum is not read as a real or as a boolean
C26_UncoveredKindThrows ==
    \A k \in 1..Len(Accesses) :
        LET a == Accesses[k].str
        IN  /\ a.result.thrown <=>
                   ~ \/ a.accessor = "unum" /\ a.value.t \in { "unum", "enum" }
                     \/ a.accessor = "inum" /\ a.value.t \in { "unum", "inum", "enum" }
                     \/ a.accessor = "real" /\ a.value.t \in Numbers
                     \/ a.accessor = "boolean" /\ a.value.t = "bool"
                     \/ a.accessor = "str" /\ a.value.t \in { "str", "enum" }
            /\ a.value.t = "str" => (a.result.thrown <=> a.accessor # "str")
            /\ a.value.t = "bool" => (a.result.thrown <=> a.accessor # "boolean")
            /\ (a.value.t = "enum" /\ a.accessor \in { "real", "boolean" }) => a.result.thrown
            /\ (~a.result.thrown /\ a.accessor # "str") => a.result.n = a.value.n

\* reached: the boolean of the result was read as an unsigned number, which threw
C26_Witness ==
    \E k \in 1..Len(Accesses) :
        /\ Accesses[k].str.value = BoolValue(TRUE) /\ Len(pParsed.pPositional) > 0
        /\ Accesses[k].str.accessor = "unum" /\ Accesses[k].str.result.thrown
\* reached: the enum of the result was read as an unsigned number, its id
C26_WitnessEnum ==
    \E k \in 1..Len(Accesses) :
        /\ Accesses[k].str.value = EnumValue(4) /\ Accesses[k].str.accessor = "unum"
        /\ ~Accesses[k].str.result.thrown /\ Accesses[k].str.result.n = 4
\* reached: the string was read as a real, which threw; the negative default as a real
C26_WitnessString ==
    \E k \in 1..Len(Accesses) :
        /\ Accesses[k].str.value.t = "str" /\ Accesses[k].str.accessor = "real"
        /\ Accesses[k].str.result.thrown
C26_WitnessNumber ==
    \E k \in 1..Len(Accesses) :
        /\ Accesses[k].str.value.t = "inum" /\ Accesses[k].str.accessor = "real"
        /\ Accesses[k].str.result = [thrown |-> FALSE, s |-> <<>>, n |-> -3]

(***************************************************************************)
(* The end of a run.                                                       *)
(***************************************************************************)
\* C27: every iteration of the scan takes at least one token and none twice
\* (the index only grows and never passes the last token), the scan ends
\* behind the last token, and every run ends, with exactly one of Parsed,
\* PrintRequested, ParseError and ConfigError
C27_ParseTerminates ==
    /\ [][/\ pIndex' >= pIndex /\ pIndex' <= Len(pArgs)
          /\ (pc = "scan" /\ pIndex < Len(pArgs)) => pIndex' > pIndex]_vars
    /\ [](Finished => /\ outcome.kind \in { "Parsed", "PrintRequested", "ParseError", "ConfigError" }
                      /\ outcome.kind # "ConfigError" => pIndex = Len(pArgs))
    /\ [](~Finished => outcome.kind = "none")
    /\ <>[]Finished

\* reached: a run over three tokens, one of them the payload of the option
\* before it, ended with the result
C27_Witness ==
    /\ Finished /\ outcome.kind = "Parsed" /\ pIndex = 4 /\ Len(pArgs) = 4
    /\ Len(Events("payload")) = 1 /\ Len(Events("positional")) = 1
\* reached: runs ended with the three other outcomes
C27_WitnessPrint == Finished /\ outcome.kind = "PrintRequested" /\ pIndex = Len(pArgs) /\ pIndex > 2
C27_WitnessError == Finished /\ outcome.kind = "ParseError" /\ pIndex = Len(pArgs) /\ pIndex > 2
C27_WitnessConfig == Finished /\ outcome.kind = "ConfigError" /\ pIndex = 0 /\ Len(pArgs) > 2

(***************************************************************************)
(* The form of the help.                                                   *)
(***************************************************************************)
\* the tokens of the scan that name the help entry: for a program an option
\* token, for a menu a bare token met before the first positional
HelpTokens ==
    { t \in 1..pIndex :
        IF ProgramMode
        THEN t > 1 /\ pArgs[t] \in { <<"-", "h">>, <<"-", "f", "h">>, <<"-", "-", "h", "e">> }
        ELSE /\ pArgs[t] \in { <<"h">>, <<"h", "e">> }
             /\ \A k \in 1..Len(trace) : trace[k].ev = "positional" => trace[k].index > t }
ByName(t) == pArgs[t] \in { <<"-", "-", "h", "e">>, <<"h", "e">> }

\* C28: the help is printed exactly if a token of the scan named the help
\* entry, and it is printed reduced exactly if the entry is reducible and
\* all of these tokens named it by its abbreviation: one token with the name,
\* before or after the others, makes it full, and the help of an entry that
\* is not reducible is always full
C28_ReducedOnlyByAbbreviation ==
    (Finished /\ Validated) =>
        /\ outcome.help # "none" <=> HelpTokens # {}
        /\ outcome.help = "reduced" <=>
               /\ HelpTokens # {}
               /\ config.help.reducible
               /\ \A t \in HelpTokens : ~ByName(t)

\* reached: the abbreviation after the name and the name after the
\* abbreviation left the help of a reducible entry full
C28_Witness ==
    /\ Finished /\ config.help.reducible /\ outcome.help = "full"
    /\ \E s, t \in HelpTokens : s < t /\ ByName(s) /\ ~ByName(t)
C28_WitnessLater ==
    /\ Finished /\ config.help.reducible /\ outcome.help = "full"
    /\ \E s, t \in HelpTokens : s < t /\ ~ByName(s) /\ ByName(t)
\* reached: reduced help for a program and for a menu, and the full help of
\* an entry that is not reducible by its abbreviation alone
C28_WitnessReduced == Finished /\ outcome.help = "reduced" /\ ProgramMode /\ Cardinality(HelpTokens) = 2
C28_WitnessMenu == Finished /\ outcome.help = "reduced" /\ ~ProgramMode /\ pTopMost = 2
C28_WitnessFull ==
    /\ Finished /\ ~config.help.reducible /\ outcome.help = "full"
    /\ HelpTokens # {} /\ \A t \in HelpTokens : ~ByName(t)

(***************************************************************************)
(* A maximum below the number of positionals.                              *)
(***************************************************************************)
\* the declared maximum of the root is not 0 and smaller than the number of
\* its positionals
MaximumBelowPositionals ==
    /\ HasValue(config.nodes[1].require.maximum)
    /\ ValueOf(config.nodes[1].require.maximum) > 0
    /\ ValueOf(config.nodes[1].require.maximum) < Len(config.nodes[1].positionals)
MaximumRejected ==
    outcome = Outcome("ConfigError", Message("Maximum must be at least the number of positionals.", <<>>),
                      "none", FALSE)

\* C29 as stated: the validation fails for an endpoint whose declared
\* maximum is not 0 and smaller than the number of its positionals
C29_MaximumBelowPositionalsRejected ==
    (pc # "validate" /\ MaximumBelowPositionals) => outcome.kind = "ConfigError"

\* C29: the validation fails for its maximum exactly for an endpoint whose
\* declared maximum is not 0, smaller than the number of its positionals and
\* not smaller than its declared minimum; a maximum below the minimum stands
\* for no maximum and is validated as 0
C29_MaximumBetweenRejected ==
    pc # "validate" =>
        /\ MaximumRejected <=>
               (MaximumBelowPositionals /\ ~NoMaximum(config.nodes[1].require))
        /\ (Validated /\ MaximumBelowPositionals) => pConfig.nodes[1].endpoints[1].maximum = 0

\* reached: two positionals with the minimum 1 and the maximum 1 were rejected
C29_Witness ==
    /\ Finished /\ MaximumRejected
    /\ Len(config.nodes[1].positionals) = 2
    /\ config.nodes[1].require = Require(Some(1), Some(1))
\* reached: two positionals with the minimum 2 and the maximum 1 were
\* accepted, and two strings were parsed
C29_WitnessBelowMinimum ==
    /\ Finished /\ outcome.kind = "Parsed"
    /\ MaximumBelowPositionals /\ config.nodes[1].require = Require(Some(2), Some(1))
    /\ Len(pParsed.pPositional) = 2

(***************************************************************************)
(* Groups, positionals and endpoints of a node.                            *)
(***************************************************************************)
\* the nodes that declare groups together with positionals or endpoints, and
\* those that declare endpoints together with positionals or a requirement
GroupsAndPositionals ==
    { n \in 1..Len(config.nodes) :
        /\ Children(config.nodes, n) # {}
        /\ Len(config.nodes[n].positionals) > 0 \/ Len(config.nodes[n].endpoints) > 0 }
EndpointsAndPositionals ==
    { n \in 1..Len(config.nodes) :
        /\ Len(config.nodes[n].endpoints) > 0
        /\ \/ Len(config.nodes[n].positionals) > 0
           \/ HasValue(config.nodes[n].require.minimum)
           \/ HasValue(config.nodes[n].require.maximum) }

\* C30: a node with groups and positionals or endpoints, and a node with
\* explicit endpoints and positionals or a requirement of its own, make the
\* validation fail; in a validated tree a node has groups and no endpoint or
\* no group and at least one endpoint, and a node that declares no group, no
\* endpoint and no positional has exactly one endpoint without positionals
C30_GroupsOrEndpoints ==
    pc # "validate" =>
        /\ (GroupsAndPositionals # {} \/ EndpointsAndPositionals # {}) => outcome.kind = "ConfigError"
        /\ 1 \in GroupsAndPositionals =>
               outcome.message.kind = "Groups and positional arguments cannot be used in conjunction."
        /\ (1 \in EndpointsAndPositionals \ GroupsAndPositionals) =>
               outcome.message.kind = "Implicit and explicit endpoints cannot be used in conjunction."
        /\ Validated =>
               \A n \in 1..Len(pConfig.nodes) :
                   /\ \/ pConfig.nodes[n].sub # {} /\ Len(pConfig.nodes[n].endpoints) = 0
                      \/ pConfig.nodes[n].sub = {} /\ Len(pConfig.nodes[n].endpoints) >= 1
                   /\ pConfig.nodes[n].sub = Children(config.nodes, n)
                   /\ (/\ Children(config.nodes, n) = {}
                       /\ Len(config.nodes[n].endpoints) = 0
                       /\ Len(config.nodes[n].positionals) = 0)
                          => /\ Len(pConfig.nodes[n].endpoints) = 1
                             /\ Len(pConfig.nodes[n].endpoints[1].positionals) = 0

\* reached: the root with the group ga and a positional of its own was rejected
C30_Witness ==
    /\ Finished /\ GroupsAndPositionals = {1} /\ Len(config.nodes[1].positionals) = 1
    /\ Len(config.nodes[1].endpoints) = 0
    /\ outcome = Outcome("ConfigError",
                         Message("Groups and positional arguments cannot be used in conjunction.", <<>>),
                         "none", FALSE)
\* reached: the group ga with an explicit endpoint and a positional was rejected
C30_WitnessEndpoints ==
    /\ Finished /\ EndpointsAndPositionals = {2} /\ GroupsAndPositionals = {}
    /\ outcome = Outcome("ConfigError",
                         Message("Implicit and explicit endpoints cannot be used in conjunction.", <<>>),
                         "none", FALSE)
\* reached: the root with the group ga, which declares nothing, was
\* validated, ga was selected and the run returned its result
C30_WitnessImplicit ==
    /\ Finished /\ outcome.kind = "Parsed" /\ pTopMost = 2
    /\ Len(config.nodes[2].positionals) = 0 /\ Len(config.nodes[2].endpoints) = 0
    /\ Len(pConfig.nodes[1].endpoints) = 0 /\ Len(pConfig.nodes[2].endpoints) = 1

(***************************************************************************)
(* The two minima of an endpoint.                                          *)
(***************************************************************************)
\* the validated endpoint of the root and what the root declares for it
RootEndpoint == pConfig.nodes[1].endpoints[1]
RootPositionals == config.nodes[1].positionals
\* slot i (from 0) of the root is filled by a default
SlotDefaulted(i) == HasValue(RootPositionals[Min(i, Len(RootPositionals) - 1) + 1].defValue)
DefaultedFrom(m) == \A i \in m..(RootEndpoint.minimumActual - 1) : SlotDefaulted(i)

\* C31: the actual minimum of a validated endpoint is the declared minimum
\* or else the number of positionals; the effective minimum is the smallest
\* m up to the actual minimum from which on every slot below the actual
\* minimum has a default, so it is at most the actual minimum, and no
\* positional below it has a default
C31_MinimaOfEndpoint ==
    Validated =>
        /\ RootEndpoint.minimumActual =
               (IF HasValue(config.nodes[1].require.minimum)
                THEN ValueOf(config.nodes[1].require.minimum) ELSE Len(RootPositionals))
        /\ RootEndpoint.minimumEffective \in 0..RootEndpoint.minimumActual
        /\ DefaultedFrom(RootEndpoint.minimumEffective)
        /\ \A m \in 0..(RootEndpoint.minimumEffective - 1) : ~DefaultedFrom(m)
        /\ \A i \in 1..Len(RootPositionals) :
               i <= RootEndpoint.minimumEffective => ~HasValue(RootPositionals[i].defValue)

\* reached: one defaulted positional and the minimum 2: both slots are
\* defaulted, the effective minimum is 0 and the actual one 2
C31_Witness ==
    /\ Validated /\ Len(RootPositionals) = 1
    /\ RootEndpoint.minimumActual = 2 /\ RootEndpoint.minimumEffective = 0
\* reached: a plain and a defaulted positional without a declared minimum
C31_WitnessTrailing ==
    /\ Validated /\ Len(RootPositionals) = 2 /\ ~HasValue(config.nodes[1].require.minimum)
    /\ RootEndpoint.minimumActual = 2 /\ RootEndpoint.minimumEffective = 1

(***************************************************************************)
(* Options without a linked group.                                         *)
(***************************************************************************)
\* the declared options no group is linked with
Unlinked ==
    { entry \in Declared :
        \A n \in 1..Len(config.nodes) : config.nodes[n].links \cap entry.option.links = {} }
ValidatedEntry(entry) == CHOOSE o \in Range(pConfig.options) : o.option.id = entry.option.id

\* C32: an option that no group is linked with is validated with its owner
\* as its only link; supplied under a leaf that is its owner or below its
\* owner it is never refused as not meant for the leaf, and supplied under
\* any other leaf it makes the parse fail
C32_UnlinkedBelongsToOwner ==
    \A entry \in Unlinked :
        /\ Validated => ValidatedEntry(entry).links = {entry.owner}
        /\ (OptionsVerified /\ WasSupplied(entry)) =>
               IF entry.owner \in AncestorsOrSelf(pTopMost)
               THEN outcome.message # Message("NotMeant", entry.option.name)
               ELSE outcome.kind = "ParseError"
        /\ (OptionsVerified /\ outcome.message = Message("NotMeant", entry.option.name)) =>
               entry.owner \notin AncestorsOrSelf(pTopMost)

\* reached: the flag of ga, linked with no group, was given under gc below
\* ga and the run returned its result
C32_Witness ==
    /\ OptionsVerified /\ outcome.kind = "Parsed" /\ pTopMost = 3
    /\ \E entry \in Unlinked : /\ entry.owner = 2 /\ WasSupplied(entry)
                               /\ entry.option.id \in pParsed.pFlags
\* reached: the option of gb was given under gc and refused
C32_WitnessRefused ==
    /\ OptionsVerified /\ pTopMost = 3
    /\ \E entry \in Unlinked : /\ entry.owner = 4 /\ WasSupplied(entry)
                               /\ outcome = Outcome("ParseError", Message("NotMeant", entry.option.name),
                                                    "none", FALSE)

(***************************************************************************)
(* What triggers the help and the version.                                 *)
(***************************************************************************)
\* the scanned tokens that are the bare name or abbreviation of the entry
\* and those that name it as an option
BareTokens(entry) == { t \in 1..pIndex : pArgs[t] \in { entry.name, <<entry.abbreviation>> } }
OptionTokens(entry) ==
    { t \in 1..pIndex : pArgs[t] \in { <<"-", "-">> \o entry.name, <<"-", entry.abbreviation>> } }
BeforePositionals(t) == \A k \in 1..Len(trace) : trace[k].ev = "positional" => trace[k].index > t
\* the tokens that trigger the entry in the mode of the configuration
Triggers(entry) ==
    IF ProgramMode THEN { t \in OptionTokens(entry) : t > 1 }
    ELSE { t \in BareTokens(entry) : BeforePositionals(t) }

\* C33: the help and the version of a menu are triggered exactly by a bare
\* token that is the name or the abbreviation of the entry and is met before
\* the first positional, never by an option token; those of a program
\* exactly by an option token with the name or the abbreviation, while a
\* bare token with the name is taken as a group selector or as a positional
C33_TriggersByMode ==
    (Finished /\ Validated) =>
        /\ outcome.help # "none" <=> Triggers(config.help) # {}
        /\ outcome.version <=> Triggers(config.versionEntry) # {}
        /\ outcome.kind = "PrintRequested" <=>
               (Triggers(config.help) # {} \/ Triggers(config.versionEntry) # {})
        /\ \A t \in BareTokens(config.help) \cup BareTokens(config.versionEntry) :
               (t \notin Triggers(config.help) \cup Triggers(config.versionEntry)) =>
                   \E k \in 1..Len(trace) : /\ trace[k].index = t /\ trace[k].str = pArgs[t]
                                            /\ trace[k].ev \in { "positional", "group", "nogroup" }

\* reached: a menu printed nothing for -h and --ve and failed
C33_Witness ==
    /\ Finished /\ ~ProgramMode /\ outcome.kind = "ParseError"
    /\ OptionTokens(config.help) # {} /\ OptionTokens(config.versionEntry) # {}
\* reached: a menu printed the help for he met in ga, and took he after x as
\* a positional
C33_WitnessMenu ==
    /\ Finished /\ ~ProgramMode /\ outcome.help = "full" /\ ~outcome.version /\ pTopMost = 2
C33_WitnessLate ==
    /\ Finished /\ ~ProgramMode /\ outcome.kind = "Parsed"
    /\ BareTokens(config.help) # {} /\ pTopMost = 2
\* reached: a program took the bare he as a positional and printed the
\* version for --ve
C33_WitnessProgram ==
    /\ Finished /\ ProgramMode /\ outcome.version /\ outcome.help = "none"
    /\ \E k \in 1..Len(trace) : trace[k].ev = "positional" /\ trace[k].str = <<"h", "e">>

(***************************************************************************)
(* The token after a payload option.                                       *)
(***************************************************************************)
\* the tokens taken as the value of the option before them, and the scanned
\* tokens --na that are read as an option
Payloads == { k \in 1..Len(trace) : trace[k].ev = "payload" }
Consumed == { trace[k].index + 1 : k \in Payloads }
BareOptions ==
    { t \in 2..pIndex :
        /\ pArgs[t] = <<"-", "-", "n", "a">> /\ t \notin Consumed /\ t < Len(pArgs)
        /\ \A k \in 1..Len(trace) : trace[k].ev = "lock" => trace[k].index > t }
SpecialTokens == { <<"-", "h">>, <<"-", "-", "h", "e">>, <<"-", "-", "v", "e">>, <<"-", "z", "v">> }

\* C34: the option --na scanned without '=' takes the token after it as its
\* value as it is written; that token is passed over by the scan and is
\* nothing on its own: no lock, no group, no positional, no option, no error
\* and no print request comes from it
C34_NextTokenIsPayload ==
    /\ \A t \in BareOptions :
          /\ \E k \in Payloads : trace[k] = Event("payload", t, 2, pArgs[t + 1])
          /\ pIndex >= t + 1
    /\ \A k \in Payloads :
          /\ trace[k].str = pArgs[trace[k].index + 1]
          /\ HasOption(pParsed.pOptions, trace[k].id)
          /\ (\A j \in k..Len(trace) : trace[j].ev # "forgotten") =>
                 \E i \in 1..Len(pParsed.pOptions[trace[k].id].values) :
                     pParsed.pOptions[trace[k].id].values[i] = StrValue(trace[k].str)
    /\ \A t \in Consumed : \A k \in 1..Len(trace) : trace[k].index # t
    /\ pPositionalLocked => \E t \in 1..pIndex : pArgs[t] = <<"-", "-">> /\ t \notin Consumed
    /\ (pPrintHelp # "none" \/ pPrintVersion) =>
           \E t \in 1..pIndex : pArgs[t] \in SpecialTokens /\ t \notin Consumed

\* reached: --na took the sentinel as its value and nothing was locked; --na
\* took the help entry and nothing was printed
C34_Witness ==
    /\ Finished /\ Consumed = {3} /\ pArgs[3] = <<"-", "-">> /\ ~pPositionalLocked
    /\ pParsed.pOptions[2].values = <<StrValue(<<"-", "-">>)>>
C34_WitnessHelp ==
    /\ Finished /\ Consumed = {3} /\ pArgs[3] = <<"-", "-", "h", "e">>
    /\ pPrintHelp = "none" /\ outcome.kind # "PrintRequested"
\* reached: --na took the group name, --na itself, and the token after the
\* value was scanned on its own
C34_WitnessGroup ==
    /\ Finished /\ Consumed = {3} /\ pArgs[3] = <<"g", "a">> /\ pTopMost = 1
C34_WitnessOption ==
    /\ Finished /\ Consumed = {3} /\ pArgs[3] = <<"-", "-", "n", "a">> /\ Len(pArgs) = 4
    /\ \E k \in 1..Len(trace) : trace[k].index = 4

(***************************************************************************)
(* The end of the scan at a node that still has groups.                    *)
(***************************************************************************)
\* the scan stopped at a node with groups below it
StoppedAboveLeaf == pc # "validate" /\ pc # "scan" /\ Validated /\ Children(config.nodes, pTopMost) # {}

\* C35: the options are verified, the constraints are run and the parsed
\* structure is returned only for a selected node without groups; when the
\* scan ends at a node with groups, nothing was triggered and no error was
\* deferred, the parse fails with the missing-group message, no constraint
\* callback has run, no endpoint was chosen and no option was given a default
C35_LeafOrGroupMissing ==
    /\ (pc \in {"optional", "constraints"} \/ outcome.kind = "Parsed") => ~StoppedAboveLeaf
    /\ (Finished /\ StoppedAboveLeaf /\ ~Triggered /\ ~HasValue(pDeferred)) =>
           /\ outcome.kind = "ParseError"
           /\ outcome.message.kind = "GroupMissing"
           /\ Len(Events("constraint")) = 0
           /\ chosen = 0
           /\ \A entry \in Declared :
                  HasOption(pParsed.pOptions, entry.option.id) => WasSupplied(entry)

\* reached: the scan ended at the root above the group ga after an option was
\* supplied, with a failing root constraint declared, and the group is missing
C35_Witness ==
    /\ Finished /\ StoppedAboveLeaf /\ ~Triggered /\ ~HasValue(pDeferred)
    /\ pTopMost = 1 /\ Len(SuppliedTo(2)) = 1
    /\ Len(config.nodes[1].constraints) > 0 /\ Len(config.nodes[1].constraints[1].message) > 0
    /\ outcome.message.kind = "GroupMissing"
\* reached: the same program parses once the leaf is selected
C35_WitnessLeaf == outcome.kind = "Parsed" /\ pTopMost = 2 /\ Len(Events("constraint")) > 0
\* reached: above the leaf a deferred error or a print request comes first
C35_WitnessDeferred == Finished /\ StoppedAboveLeaf /\ HasValue(pDeferred) /\ outcome.kind = "ParseError"
C35_WitnessPrint == Finished /\ StoppedAboveLeaf /\ Triggered /\ outcome.kind = "PrintRequested"

(***************************************************************************)
(* The number of positionals of a parsed result.                           *)
(***************************************************************************)
\* the endpoint the positional verification has chosen
ChosenEndpoint == pConfig.nodes[pTopMost].endpoints[chosen]
Backfilled == Len(pParsed.pPositional) - pParsed.pSuppliedPositionals

\* C36: a parsed result holds at least minimumActual positionals of the chosen
\* endpoint and, for a maximum other than zero, at most maximum; every
\* validated maximum other than zero is at least minimumActual and at least
\* the number of declared positionals, the bound of the default backfill
C36_PositionalCountInRange ==
    /\ Validated =>
           \A n \in 1..Len(pConfig.nodes) : \A e \in 1..Len(pConfig.nodes[n].endpoints) :
               LET endpoint == pConfig.nodes[n].endpoints[e]
               IN  endpoint.maximum # 0 =>
                       endpoint.maximum >= Max(endpoint.minimumActual, Len(endpoint.positionals))
    /\ outcome.kind = "Parsed" =>
           /\ Len(pParsed.pPositional) >= ChosenEndpoint.minimumActual
           /\ ChosenEndpoint.maximum # 0 => Len(pParsed.pPositional) <= ChosenEndpoint.maximum
           /\ Backfilled > 0 =>
                  Len(pParsed.pPositional) <= Max(ChosenEndpoint.minimumActual, Len(ChosenEndpoint.positionals))

\* reached: defaults were appended up to the maximum; defaults were appended
\* past minimumActual; a result without a maximum; a result at a declared maximum
C36_Witness ==
    /\ outcome.kind = "Parsed" /\ Backfilled > 0
    /\ Len(pParsed.pPositional) = ChosenEndpoint.maximum
C36_WitnessPastMinimum ==
    /\ outcome.kind = "Parsed" /\ Backfilled > 0
    /\ Len(pParsed.pPositional) > ChosenEndpoint.minimumActual
C36_WitnessUnbounded ==
    /\ outcome.kind = "Parsed" /\ ChosenEndpoint.maximum = 0 /\ Len(ChosenEndpoint.positionals) > 0
    /\ Len(pParsed.pPositional) > Len(ChosenEndpoint.positionals)
C36_WitnessSupplied ==
    /\ outcome.kind = "Parsed" /\ Backfilled = 0 /\ HasValue(config.nodes[1].require.maximum)
    /\ Len(pParsed.pPositional) = ChosenEndpoint.maximum /\ ChosenEndpoint.maximum > ChosenEndpoint.minimumActual

(***************************************************************************)
(* The order of the endpoints of a validated node.                         *)
(***************************************************************************)
\* C37: in every validated node the endpoints stand in strictly increasing
\* order of their effective minimum; no two of them share one
C37_EndpointsStrictlySorted ==
    Validated =>
        \A n \in 1..Len(pConfig.nodes) : \A i \in 2..Len(pConfig.nodes[n].endpoints) :
            pConfig.nodes[n].endpoints[i - 1].minimumEffective
                < pConfig.nodes[n].endpoints[i].minimumEffective

(***************************************************************************)
(* The options of a program whose root is the selected leaf.               *)
(***************************************************************************)
WithoutGroups == Len(config.nodes) = 1
NotMeantRaised == outcome.kind = "ParseError" /\ outcome.message.kind = "NotMeant"

\* C38: in a validated program without groups the root is the selected node
\* and may use every declared option, linked or not, so the usage check of
\* the option verification passes for each of them; the message 'not meant
\* for', which names the parent of the selected node, is raised only with a
\* selected node that has a parent
C38_RootMayUseAll ==
    /\ (Validated /\ WithoutGroups) =>
           /\ pTopMost = 1
           /\ \A entry \in Declared : MayUse(1, entry)
           /\ \A k \in 1..Len(pConfig.options) : CheckUsage(pConfig.nodes, pConfig.options[k].links, 1)
           /\ ~NotMeantRaised
    /\ NotMeantRaised => pTopMost # 1 /\ config.nodes[pTopMost].parent # 0

\* reached: without groups the flag with a reference id and the option were
\* supplied and the parse went through
C38_Witness ==
    /\ outcome.kind = "Parsed" /\ WithoutGroups /\ pTopMost = 1
    /\ \A entry \in Declared : WasSupplied(entry)
    /\ \E entry \in Declared : entry.option.links # {}
\* reached: with groups the message is raised under the leaf gb
C38_WitnessNotMeant == NotMeantRaised /\ pTopMost = 3
\* reached: with groups the scan ends at the root and the options are not verified
C38_WitnessAboveLeaf ==
    /\ Finished /\ ~WithoutGroups /\ pTopMost = 1 /\ \E entry \in Declared : WasSupplied(entry)
    /\ outcome.message.kind = "GroupMissing"

(***************************************************************************)
(* What becomes of each token of a parsed list.                            *)
(***************************************************************************)
\* the values the scan took for an option, in order, and whether the value of
\* event k is one of the occurrences that the result counts for the option
ValueEvents(id) == { k \in 1..Len(trace) : trace[k].id = id /\ trace[k].ev \in {"inline", "payload"} }
Kept(k) ==
    LET id == trace[k].id
        after == Cardinality({ j \in ValueEvents(id) : j > k })
    IN  HasOption(pParsed.pOptions, id) /\ after < pParsed.pOptions[id].supplied
Accounted(t) ==
    \/ t = 1 /\ ProgramMode
    \/ \E k \in 1..Len(trace) :
          /\ trace[k].index = t
          /\ \/ trace[k].ev = "lock"
             \/ trace[k].ev = "flag" /\ trace[k].id \in pParsed.pFlags
             \/ trace[k].ev \in {"inline", "payload"} /\ Kept(k)
             \/ trace[k].ev = "group" /\ \E i \in 1..Len(pParsed.pGroupIds) : pParsed.pGroupIds[i] = config.nodes[trace[k].id].id
             \/ /\ trace[k].ev = "positional"
                /\ Cardinality({ j \in 1..k : trace[j].ev = "positional" }) <= pParsed.pSuppliedPositionals
    \/ \E k \in Payloads : trace[k].index + 1 = t /\ Kept(k)

\* C39: in a parsed result every token of the list is the program path, the
\* sentinel, an option token that set a flag of the result or gave a value
\* that the result counts, the value taken by the option before it, a group
\* name on the path of the result, or a positional of the result
C39_EveryTokenAccounted ==
    outcome.kind = "Parsed" => \A t \in 1..Len(pArgs) : Accounted(t)

====
